---- MODULE Spec2Model ----
(***************************************************************************)
(* Model of the pick-selection backend in src/main.py: the /lrs handler    *)
(* (strict / best / hype modes with progressive widening and category-lock *)
(* fallback), the /suggest handler, and the two in-memory caches.          *)
(*                                                                         *)
(* Conventions                                                             *)
(*  - A provider place is a record that has only the keys the provider     *)
(*    sent; Get(p, k, d) is Python's  p.get(k) or d.                       *)
(*    displayName.text is flattened to displayName,                        *)
(*    currentOpeningHours.openNow to openNow, and location holds the       *)
(*    great-circle distance in metres from the resolved center (the value  *)
(*    haversine_m returns for it); a place without numeric coordinates has *)
(*    no location key.                                                     *)
(*  - Ratings are in tenths (4.3 is 43).                                   *)
(*  - Python's None is <<>>, a present optional value v is <<v>>.          *)
(*  - Strings are TLC strings; lower/upper/strip/substring search are      *)
(*    computed character by character. The typographic apostrophe of the   *)
(*    source's fixed sentences is written as an ASCII one.                 *)
(***************************************************************************)
EXTENDS Integers, Sequences, FiniteSets, TLC

None == <<>>
Some(v) == <<v>>

\* what a provider call yields: it raises, or it returns v
Raise == [ok |-> FALSE]

Ok(v) == [ok |-> TRUE, v |-> v]

Get(p, k, d) == IF k \in DOMAIN p THEN p[k] ELSE d

Min(a, b) == IF a <= b THEN a ELSE b

Max(a, b) == IF a >= b THEN a ELSE b

(***************************************************************************)
(* str methods                                                             *)
(***************************************************************************)
UPPER == "ABCDEFGHIJKLMNOPQRSTUVWXYZ"

LOWER == "abcdefghijklmnopqrstuvwxyz"

DIGITS == "0123456789"

Char(s, i) == SubSeq(s, i, i)

Tail1(s) == SubSeq(s, 2, Len(s))

IndexIn(alphabet, c) ==
    IF \E i \in 1..Len(alphabet) : Char(alphabet, i) = c
    THEN CHOOSE i \in 1..Len(alphabet) : Char(alphabet, i) = c
    ELSE 0

LowerChar(c) == IF IndexIn(UPPER, c) > 0 THEN Char(LOWER, IndexIn(UPPER, c)) ELSE c

UpperChar(c) == IF IndexIn(LOWER, c) > 0 THEN Char(UPPER, IndexIn(LOWER, c)) ELSE c

RECURSIVE Lower(_)
Lower(s) == IF s = "" THEN "" ELSE LowerChar(Char(s, 1)) \o Lower(Tail1(s))

RECURSIVE Upper(_)
Upper(s) == IF s = "" THEN "" ELSE UpperChar(Char(s, 1)) \o Upper(Tail1(s))

IsSpace(c) == c = " "

RECURSIVE LStrip(_)
LStrip(s) == IF s # "" /\ IsSpace(Char(s, 1)) THEN LStrip(Tail1(s)) ELSE s

RECURSIVE RStrip(_)
RStrip(s) ==
    IF s # "" /\ IsSpace(Char(s, Len(s))) THEN RStrip(SubSeq(s, 1, Len(s) - 1)) ELSE s

Strip(s) == RStrip(LStrip(s))

\* Python's  frag in s
Contains(s, frag) ==
    \E i \in 1..(Len(s) - Len(frag) + 1) : SubSeq(s, i, i + Len(frag) - 1) = frag

(***************************************************************************)
(* Static tables                                                           *)
(***************************************************************************)
CHAIN_HINTS ==
    << "mcdonald",
       "starbucks",
       "chipotle",
       "subway",
       "taco bell",
       "kfc",
       "wendy",
       "burger king",
       "domino",
       "pizza hut",
       "panera",
       "dunkin",
       "ihop",
       "applebee",
       "olive garden",
       "outback",
       "red lobster",
       "buffalo wild wings",
       "cheesecake factory",
       "yard house",
       "sport clips",
       "supercuts",
       "great clips",
       "cvs",
       "walgreens" >>

DISH_ALIASES ==
    ("pho" :> "vietnamese")
    @@ ("pho tai" :> "vietnamese")
    @@ ("pho ga" :> "vietnamese")
    @@ ("pho dac biet" :> "vietnamese")
    @@ ("bun bo hue" :> "vietnamese")
    @@ ("banh mi" :> "vietnamese")
    @@ ("birria" :> "mexican")
    @@ ("quesabirria" :> "mexican")
    @@ ("tacos de birria" :> "mexican")
    @@ ("al pastor" :> "mexican")
    @@ ("carnitas" :> "mexican")
    @@ ("carne asada" :> "mexican")
    @@ ("ramen" :> "ramen")
    @@ ("tonkotsu" :> "ramen")
    @@ ("shoyu" :> "ramen")
    @@ ("miso ramen" :> "ramen")
    @@ ("tsukemen" :> "ramen")
    @@ ("sushi" :> "sushi")
    @@ ("omakase" :> "sushi")
    @@ ("nigiri" :> "sushi")
    @@ ("sashimi" :> "sushi")
    @@ ("hand roll" :> "sushi")
    @@ ("bbq" :> "bbq")
    @@ ("brisket" :> "bbq")
    @@ ("ribs" :> "bbq")
    @@ ("pulled pork" :> "bbq")
    @@ ("burger" :> "burgers")
    @@ ("cheeseburger" :> "burgers")
    @@ ("smashburger" :> "burgers")

CUISINE_TYPE_LOCK ==
    ("pizza" :> {"pizza_restaurant"})
    @@ ("tacos" :> {"mexican_restaurant"})
    @@ ("ramen" :> {"japanese_restaurant", "ramen_restaurant"})
    @@ ("sushi" :> {"japanese_restaurant", "sushi_restaurant"})
    @@ ("thai" :> {"thai_restaurant"})
    @@ ("bbq" :> {"barbecue_restaurant"})
    @@ ("breakfast" :> {"breakfast_restaurant"})
    @@ ("burgers" :> {"hamburger_restaurant"})
    @@ ("pho" :> {"vietnamese_restaurant"})
    @@ ("italian" :> {"italian_restaurant"})
    @@ ("japanese" :> {"japanese_restaurant"})
    @@ ("mexican" :> {"mexican_restaurant"})
    @@ ("chinese" :> {"chinese_restaurant"})
    @@ ("indian" :> {"indian_restaurant"})
    @@ ("american" :> {"american_restaurant"})
    @@ ("korean" :> {"korean_restaurant"})
    @@ ("french" :> {"french_restaurant"})
    @@ ("greek" :> {"greek_restaurant"})
    @@ ("mediterranean" :> {"mediterranean_restaurant"})
    @@ ("vietnamese" :> {"vietnamese_restaurant"})
    @@ ("spanish" :> {"spanish_restaurant"})
    @@ ("middle eastern" :> {"middle_eastern_restaurant"})
    @@ ("middle_eastern" :> {"middle_eastern_restaurant"})
    @@ ("seafood" :> {"seafood_restaurant"})
    @@ ("filipino" :> {"filipino_restaurant"})
    @@ ("peruvian" :> {"peruvian_restaurant"})
    @@ ("cajun" :> {"cajun_restaurant"})
    @@ ("cajun/creole" :> {"cajun_restaurant"})
    @@ ("creole" :> {"cajun_restaurant"})
    @@ ("drinks" :> {"bar", "cafe", "coffee_shop"})
    @@ ("barber" :> {"hair_salon"})
    @@ ("haircut" :> {"hair_salon"})
    @@ ("coffee" :> {"cafe", "coffee_shop"})
    @@ ("pharmacy" :> {"pharmacy"})
    @@ ("park" :> {"park"})
    @@ ("grocery" :> {"grocery_store", "supermarket"})

DISH_KEYWORDS ==
    ("tacos" :>
         << "tacos", "street tacos", "birria", "quesabirria", "al pastor", "carnitas",
            "carne asada", "pollo asado", "barbacoa", "lengua", "chorizo", "fish taco",
            "shrimp taco", "breakfast taco", "taco plate", "burrito", "breakfast burrito",
            "california burrito", "bean and cheese", "quesadilla", "mulitas", "torta",
            "nachos", "chips and salsa", "guacamole", "salsa", "horchata", "agua fresca",
            "menudo" >>)
    @@ ("mexican" :>
         << "tacos", "burrito", "breakfast burrito", "quesadilla", "nachos", "tamales",
            "enchiladas", "fajitas", "carne asada", "al pastor", "carnitas", "birria",
            "chile relleno", "pozole", "menudo", "mole", "torta", "ceviche",
            "coctel de camaron", "aguachile", "sopes", "gorditas", "tostadas",
            "chilaquiles", "elote", "guacamole", "salsa", "horchata", "agua fresca",
            "margarita" >>)
    @@ ("italian" :>
         << "pizza", "margherita", "pepperoni", "sausage pizza", "white pizza", "pasta",
            "spaghetti", "meatballs", "lasagna", "bolognese", "carbonara", "alfredo",
            "pesto", "gnocchi", "ravioli", "fettuccine", "penne vodka", "cacio e pepe",
            "clam pasta", "seafood pasta", "chicken parmesan", "eggplant parmesan",
            "veal parmesan", "bruschetta", "caprese", "calamari", "tiramisu", "cannoli",
            "garlic bread", "antipasto" >>)
    @@ ("pizza" :>
         << "pizza", "pepperoni", "margherita", "sausage", "meatball", "mushroom",
            "white pizza", "sicilian", "grandma slice", "new york slice", "deep dish",
            "thin crust", "detroit style", "wood fired", "neapolitan", "calzone",
            "stromboli", "garlic knots", "pepperoni slice", "supreme", "hawaiian",
            "four cheese", "buffalo chicken", "pesto", "ricotta", "prosciutto",
            "veggie pizza", "extra crispy", "gluten free", "slice", "pie" >>)
    @@ ("japanese" :>
         << "ramen", "tonkotsu", "shoyu", "miso ramen", "spicy ramen", "udon",
            "tempura udon", "soba", "gyoza", "karaage", "katsu", "tonkatsu",
            "chicken katsu", "yakitori", "teriyaki", "donburi", "gyudon", "oyakodon",
            "curry", "katsu curry", "sushi", "nigiri", "sashimi", "hand roll", "roll",
            "chirashi", "omakase", "unagi", "matcha", "mochi" >>)
    @@ ("ramen" :>
         << "ramen", "tonkotsu", "shoyu", "miso", "spicy ramen", "tsukemen", "shio",
            "black garlic", "chashu", "pork belly", "soft egg", "ajitama", "gyoza",
            "karaage", "broth", "noodles", "extra noodles", "spicy miso", "garlic", "corn",
            "butter", "narutomaki", "bamboo shoots", "bean sprouts", "rice bowl",
            "donburi", "takoyaki", "edamame", "yakitori", "tempura", "onigiri" >>)
    @@ ("sushi" :>
         << "sushi", "omakase", "nigiri", "sashimi", "hand roll", "spicy tuna", "salmon",
            "eel", "unagi", "yellowtail", "hamachi", "tuna", "maguro", "albacore",
            "shrimp", "tempura roll", "california roll", "dragon roll", "rainbow roll",
            "uni", "ikura", "scallop", "octopus", "sea urchin", "miso soup", "edamame",
            "gyoza", "chirashi", "poke", "rice bowl", "bento" >>)
    @@ ("chinese" :>
         << "dumplings", "potstickers", "fried rice", "chow mein", "lo mein",
            "kung pao chicken", "orange chicken", "general tso", "mapo tofu",
            "sweet and sour", "hot and sour soup", "wonton soup", "wontons", "bbq pork",
            "char siu", "pork belly", "beef and broccoli", "egg rolls", "spring rolls",
            "dan dan noodles", "hand pulled noodles", "xiao long bao", "soup dumplings",
            "sichuan", "spicy", "salt and pepper", "tea", "boba", "milk tea",
            "peking duck", "scallion pancake" >>)
    @@ ("indian" :>
         << "butter chicken", "tikka masala", "chicken tikka", "biryani", "tandoori",
            "naan", "garlic naan", "paratha", "samosa", "pakora", "saag", "palak paneer",
            "paneer", "chana masala", "dal", "dal makhani", "vindaloo", "korma", "madras",
            "curry", "dosa", "idli", "sambar", "chutney", "rasam", "lamb curry",
            "goat curry", "rogan josh", "mango lassi", "chai" >>)
    @@ ("american" :>
         << "burger", "cheeseburger", "smashburger", "double burger", "fries",
            "onion rings", "milkshake", "fried chicken", "wings", "tenders", "bbq",
            "brisket", "ribs", "pulled pork", "mac and cheese", "biscuits and gravy",
            "pancakes", "waffles", "french toast", "hash browns", "breakfast burrito",
            "omelet", "eggs benedict", "steak", "ribeye", "prime rib", "meatloaf",
            "grilled cheese", "chili", "clam chowder" >>)
    @@ ("burgers" :>
         << "burger", "cheeseburger", "smashburger", "double burger", "fries",
            "onion rings", "milkshake", "house burger", "classic burger", "sliders",
            "loaded fries", "garlic fries" >>)
    @@ ("bbq" :>
         << "bbq", "brisket", "ribs", "pulled pork", "burnt ends", "sausage",
            "smoked chicken", "tri tip", "mac and cheese", "coleslaw", "baked beans",
            "cornbread" >>)
    @@ ("thai" :>
         << "pad thai", "pad see ew", "drunken noodles", "tom yum", "tom kha",
            "green curry", "red curry", "panang curry", "massaman curry", "thai basil",
            "larb", "papaya salad", "som tam", "thai tea" >>)
    @@ ("korean" :>
         << "kbbq", "bulgogi", "galbi", "bibimbap", "kimchi", "soondubu", "tteokbokki",
            "japchae", "kimbap" >>)
    @@ ("vietnamese" :>
         << "pho", "banh mi", "spring rolls", "vermicelli", "com tam", "bun bo hue",
            "iced coffee" >>)
    @@ ("pho" :>
         << "pho", "pho tai", "pho dac biet", "pho ga", "bun bo hue", "spring rolls",
            "goi cuon", "banh mi" >>)
    @@ ("greek" :>
         << "gyro", "souvlaki", "hummus", "tzatziki", "greek salad", "baklava" >>)
    @@ ("mediterranean" :>
         << "shawarma", "gyro", "falafel", "hummus", "kebab", "pita", "tabbouleh",
            "baklava" >>)
    @@ ("middle eastern" :>
         << "shawarma", "falafel", "hummus", "kebab", "kofta", "pita", "tabbouleh",
            "baklava" >>)
    @@ ("middle_eastern" :>
         << "shawarma", "falafel", "hummus", "kebab", "kofta", "pita", "tabbouleh",
            "baklava" >>)
    @@ ("french" :>
         << "croissant", "baguette", "quiche", "crepe", "steak frites", "escargot" >>)
    @@ ("spanish" :>
         << "tapas", "paella", "patatas bravas", "croquetas", "sangria" >>)
    @@ ("seafood" :>
         << "shrimp", "lobster", "crab", "oysters", "clam chowder", "fish and chips",
            "ceviche" >>)
    @@ ("cajun" :>
         << "gumbo", "jambalaya", "po boy", "etouffee", "red beans and rice" >>)
    @@ ("cajun/creole" :>
         << "gumbo", "jambalaya", "po boy", "etouffee", "red beans and rice" >>)
    @@ ("creole" :>
         << "gumbo", "jambalaya", "po boy", "etouffee", "red beans and rice" >>)
    @@ ("filipino" :>
         << "adobo", "sinigang", "sisig", "lechon", "pancit", "lumpia", "halo halo" >>)
    @@ ("peruvian" :>
         << "ceviche", "lomo saltado", "aji de gallina", "pollo a la brasa", "pisco sour" >>)
    @@ ("breakfast" :>
         << "pancakes", "waffles", "french toast", "omelet", "eggs benedict",
            "breakfast burrito", "coffee" >>)
    @@ ("steak" :>
         << "ribeye", "filet mignon", "prime rib", "steak frites" >>)
    @@ ("fried chicken" :>
         << "fried chicken", "chicken sandwich", "wings", "tenders" >>)
    @@ ("drinks" :>
         << "coffee", "iced coffee", "cold brew", "latte", "cappuccino", "espresso",
            "americano", "matcha", "chai", "boba", "milk tea", "thai tea", "lemonade",
            "agua fresca", "horchata", "smoothie", "shake", "milkshake", "mocktail",
            "cocktail", "margarita", "paloma", "mojito", "old fashioned", "martini",
            "negroni", "spritz", "beer", "craft beer", "ipa" >>)

NON_FOOD_CATEGORIES ==
    {"barber", "haircut", "coffee", "pharmacy", "park", "grocery", "drinks"}

REVIEWS_CACHE_MAX == 200

SUGGEST_CACHE_TTL_S == 300

SUGGEST_CACHE_MAX == 300

\* dict.get(k): None when the key is missing
\* a lookup that never finds its key
DictGetNothing(d, k) == None

DictGet(d, k) == IF k \in DOMAIN d THEN Some(d[k]) ELSE None

(***************************************************************************)
(* Pure helpers of the pick pipeline                                       *)
(***************************************************************************)
mode_label(mode) ==
    LET m == Strip(Lower(mode)) IN
    CASE m = "strict" -> "Top Local Picks"
      [] m = "best" -> "Best Available"
      [] m = "hype" -> "Hype"
      [] OTHER -> "Unknown"

\* int(miles * 1609.344)
miles_to_meters(miles) == (miles * 1609344) \div 1000

\* round(meters_to_miles(d_m), 1), in tenths of a mile
distance_miles_of(d_m) == (2 * d_m * 10000 + 1609344) \div (2 * 1609344)

\* is_chain without the lower() of the name
is_chain_case_sensitive(name) ==
    \E i \in 1..Len(CHAIN_HINTS) : Contains(name, CHAIN_HINTS[i])

is_chain(name) ==
    LET n == Lower(name) IN
    \E i \in 1..Len(CHAIN_HINTS) : Contains(n, CHAIN_HINTS[i])

\* md5 cannot be computed here: a stand-in with the same contract, a pure
\* function of the key with values in 0..n-1
stable_pick_index(s, n) == Len(s) % n

key_for(p) ==
    LET name == Lower(Strip(Get(p, "displayName", "")))
        addr == Lower(Strip(Get(p, "formattedAddress", "")))
    IN name \o "||" \o addr

\* floor(10000 * log10(n)) for the review counts carried by the model's places
Log10E4 ==
    (1 :> 0) @@ (5 :> 6989) @@ (10 :> 10000) @@ (20 :> 13010) @@ (25 :> 13979)
    @@ (30 :> 14771) @@ (40 :> 16020) @@ (80 :> 19030) @@ (100 :> 20000)
    @@ (150 :> 21760) @@ (160 :> 22041) @@ (180 :> 22552) @@ (200 :> 23010)
    @@ (300 :> 24771) @@ (350 :> 25440) @@ (400 :> 26020) @@ (500 :> 26989)
    @@ (600 :> 27781) @@ (900 :> 29542) @@ (1000 :> 30000) @@ (2000 :> 33010)
    @@ (9000 :> 39542) @@ (10000 :> 40000)

\* scores are scaled by 10000 (ratings are in tenths: rating * 2 is r * 2000)
score_lrs(p) ==
    LET rating == Get(p, "rating", 0)
        reviews == Get(p, "userRatingCount", 0)
        review_strength == Log10E4[Max(1, reviews)]
    IN rating * 2000 + review_strength

score_hype(p) ==
    LET rating == Get(p, "rating", 0)
        reviews == Get(p, "userRatingCount", 0)
    IN Log10E4[Max(1, reviews)] * 5 + rating * 1000

Score(sorter, p) == IF sorter = "score_hype" THEN score_hype(p) ELSE score_lrs(p)

\* confidence_label that gives Med on either of its two conditions
confidence_label_med_on_either(rating, reviews) ==
    IF rating >= 45 /\ reviews >= 300 THEN "High"
    ELSE IF rating >= 43 \/ reviews >= 100 THEN "Med"
    ELSE "Low"

confidence_label(rating, reviews) ==
    IF rating >= 45 /\ reviews >= 300 THEN "High"
    ELSE IF rating >= 43 /\ reviews >= 100 THEN "Med"
    ELSE "Low"

hype_reason(rating, reviews) ==
    IF reviews >= 1500 /\ rating >= 44 THEN "Big buzz"
    ELSE IF reviews >= 800 THEN "Popular spot"
    ELSE IF rating >= 46 /\ reviews >= 200 THEN "High rating"
    ELSE IF reviews >= 200 THEN "Decent buzz"
    ELSE "Some buzz"

cuisine_lock_types(cuisine) ==
    IF cuisine = None \/ cuisine = Some("") THEN None
    ELSE DictGet(CUISINE_TYPE_LOCK, Lower(Strip(cuisine[1])))

matches_type_lock(place, allowed) ==
    IF allowed = None \/ allowed = Some({}) THEN TRUE
    ELSE LET primary == Lower(Strip(Get(place, "primaryType", "")))
             types == Get(place, "types", <<>>)
         IN \/ primary \in allowed[1]
            \/ \E i \in 1..Len(types) : Lower(Strip(types[i])) \in allowed[1]

\* is_closed_place that drops the permanently closed only
is_closed_place_permanent_only(p) ==
    Upper(Strip(Get(p, "businessStatus", ""))) = "CLOSED_PERMANENTLY"

is_closed_place(p) ==
    LET status == Upper(Strip(Get(p, "businessStatus", ""))) IN
    IF status \in {"CLOSED_PERMANENTLY", "CLOSED_TEMPORARILY"} THEN TRUE
    ELSE IF "openNow" \in DOMAIN p /\ p.openNow = FALSE THEN TRUE
    ELSE FALSE

(***************************************************************************)
(* Narrative enrichment                                                    *)
(***************************************************************************)
GENERIC_ORDER == "If you're unsure, ask what regulars order most."

ORDER_SENTENCE_OPTIONS ==
    << "Most people mention this",
       "Commonly mentioned by regulars",
       "Shows up often when locals talk about this place",
       "Mentioned repeatedly in reviews",
       "A frequent favorite among locals",
       "This is what people tend to order here",
       "This comes up a lot when locals talk about the place" >>

NormChar(c) == IF IndexIn(LOWER, c) > 0 \/ IndexIn(DIGITS, c) > 0 \/ IsSpace(c) THEN c ELSE " "

RECURSIVE MapNorm(_)
MapNorm(s) == IF s = "" THEN "" ELSE NormChar(Char(s, 1)) \o MapNorm(Tail1(s))

RECURSIVE Collapse(_)
Collapse(s) ==
    IF Len(s) < 2 THEN s
    ELSE IF IsSpace(Char(s, 1)) /\ IsSpace(Char(s, 2)) THEN Collapse(Tail1(s))
    ELSE Char(s, 1) \o Collapse(Tail1(s))

normalize_text(s) == Strip(Collapse(MapNorm(Lower(s))))

\* str.count: non-overlapping occurrences, scanned left to right
RECURSIVE StrCount(_, _)
StrCount(s, k) ==
    IF Len(s) < Len(k) THEN 0
    ELSE IF SubSeq(s, 1, Len(k)) = k
    THEN 1 + StrCount(SubSeq(s, Len(k) + 1, Len(s)), k)
    ELSE StrCount(Tail1(s), k)

RECURSIVE JoinSpace(_)
JoinSpace(ts) ==
    IF ts = <<>> THEN ""
    ELSE IF Len(ts) = 1 THEN ts[1]
    ELSE ts[1] \o " " \o JoinSpace(Tail(ts))

\* most_mentioned_dish that returns the last declared of the keywords tied at
\* the highest count
most_mentioned_dish_last_of_ties(review_texts, cuisine) ==
    IF review_texts = <<>> THEN None
    ELSE LET c == Lower(Strip(cuisine))
             keywords == IF c \in DOMAIN DISH_KEYWORDS THEN DISH_KEYWORDS[c] ELSE <<>>
             joined == JoinSpace([i \in 1..Len(review_texts) |-> normalize_text(review_texts[i])])
             n(i) == IF normalize_text(keywords[i]) = "" THEN 0
                     ELSE StrCount(joined, normalize_text(keywords[i]))
             counted == {i \in 1..Len(keywords) : n(i) > 0}
         IN IF keywords = <<>> \/ counted = {} THEN None
            ELSE LET best == CHOOSE i \in counted :
                                \A j \in counted : n(j) < n(i) \/ (n(j) = n(i) /\ i >= j)
                 IN Some(keywords[best])

\* most_mentioned_dish with the longest keyword first among those counted
\* equally often
most_mentioned_dish_longest_of_ties(review_texts, cuisine) ==
    IF review_texts = <<>> THEN None
    ELSE LET c == Lower(Strip(cuisine))
             keywords == IF c \in DOMAIN DISH_KEYWORDS THEN DISH_KEYWORDS[c] ELSE <<>>
             joined == JoinSpace([i \in 1..Len(review_texts) |-> normalize_text(review_texts[i])])
             n(i) == IF normalize_text(keywords[i]) = "" THEN 0
                     ELSE StrCount(joined, normalize_text(keywords[i]))
             counted == {i \in 1..Len(keywords) : n(i) > 0}
         IN IF keywords = <<>> \/ counted = {} THEN None
            ELSE LET best == CHOOSE i \in counted :
                                \A j \in counted \ {i} :
                                    \/ n(j) < n(i)
                                    \/ n(j) = n(i) /\ Len(keywords[j]) < Len(keywords[i])
                                    \/ n(j) = n(i) /\ Len(keywords[j]) = Len(keywords[i]) /\ i < j
                 IN Some(keywords[best])

most_mentioned_dish(review_texts, cuisine) ==
    IF review_texts = <<>> THEN None
    ELSE LET c == Lower(Strip(cuisine))
             keywords == IF c \in DOMAIN DISH_KEYWORDS THEN DISH_KEYWORDS[c] ELSE <<>>
             joined == JoinSpace([i \in 1..Len(review_texts) |-> normalize_text(review_texts[i])])
             n(i) == IF normalize_text(keywords[i]) = "" THEN 0
                     ELSE StrCount(joined, normalize_text(keywords[i]))
             counted == {i \in 1..Len(keywords) : n(i) > 0}
         IN IF keywords = <<>> \/ counted = {} THEN None
            ELSE LET best == CHOOSE i \in counted :
                                \A j \in counted : n(j) < n(i) \/ (n(j) = n(i) /\ i <= j)
                 IN Some(keywords[best])

order_line(place_name, dish) ==
    IF dish # None
    THEN LET key == "order|" \o place_name \o "|" \o dish[1]
             sentence == ORDER_SENTENCE_OPTIONS[
                             stable_pick_index(key, Len(ORDER_SENTENCE_OPTIONS)) + 1]
         IN sentence \o " - " \o dish[1] \o "."
    ELSE GENERIC_ORDER

\* the sentence banks are not reproduced: the result names the bank of the
\* mode and the option index chosen from the key
why_line(mode, name, rating, reviews) ==
    LET m == Strip(Lower(mode))
        key == m \o "|" \o name \o "|" \o ToString(rating) \o "|" \o ToString(reviews)
        bank == IF m = "strict" THEN "strict" ELSE IF m = "best" THEN "best" ELSE "hype"
    IN bank \o ":" \o ToString(stable_pick_index(key, 5))

(***************************************************************************)
(* Caches: a dict is a sequence of entries in insertion order              *)
(***************************************************************************)
DictHas(d, k) == \E i \in 1..Len(d) : d[i].k = k

DictAt(d, k) == d[CHOOSE i \in 1..Len(d) : d[i].k = k]

\* d[k] = v : a present key keeps its position, a new key goes last
DictSet(d, k, entry) ==
    IF DictHas(d, k)
    THEN [i \in 1..Len(d) |-> IF d[i].k = k THEN entry ELSE d[i]]
    ELSE Append(d, entry)

DictPop(d, k) ==
    LET Other(e) == e.k # k IN SelectSeq(d, Other)

\* a pop of the newest inserted key
DictPopNewest(d) == SubSeq(d, 1, Len(d) - 1)

\* d.pop(next(iter(d))): the oldest inserted key
DictPopFirst(d) == Tail(d)

\* the texts place_reviews keeps of a provider answer
texts_of(reviews) ==
    LET first8 == SubSeq(reviews, 1, Min(8, Len(reviews)))
        stripped == [i \in 1..Len(first8) |-> Strip(first8[i])]
        NonEmpty(t) == t # ""
    IN SelectSeq(stripped, NonEmpty)

\* place_reviews that answers a failed fetch with the texts of the oldest
\* cache entry
place_reviews_stale_on_failure(cache, place_id, outcome) ==
    IF place_id = "" THEN [texts |-> <<>>, cache |-> cache, called |-> FALSE, read |-> FALSE]
    ELSE IF DictHas(cache, place_id)
    THEN [texts |-> DictAt(cache, place_id).v, cache |-> cache, called |-> FALSE, read |-> TRUE]
    ELSE IF ~outcome.ok
    THEN [texts |-> IF cache = <<>> THEN <<>> ELSE cache[1].v, cache |-> cache,
          called |-> TRUE, read |-> TRUE]
    ELSE LET texts == texts_of(outcome.v)
             room == IF Len(cache) >= REVIEWS_CACHE_MAX THEN DictPopFirst(cache) ELSE cache
         IN [texts |-> texts,
             cache |-> DictSet(room, place_id, [k |-> place_id, v |-> texts]),
             called |-> TRUE, read |-> TRUE]

\* place_reviews that stores the empty list of a failed fetch
place_reviews_caching_failures(cache, place_id, outcome) ==
    IF place_id = "" THEN [texts |-> <<>>, cache |-> cache, called |-> FALSE, read |-> FALSE]
    ELSE IF DictHas(cache, place_id)
    THEN [texts |-> DictAt(cache, place_id).v, cache |-> cache, called |-> FALSE, read |-> TRUE]
    ELSE LET texts == IF outcome.ok THEN texts_of(outcome.v) ELSE <<>>
             room == IF Len(cache) >= REVIEWS_CACHE_MAX THEN DictPopFirst(cache) ELSE cache
         IN [texts |-> texts,
             cache |-> DictSet(room, place_id, [k |-> place_id, v |-> texts]),
             called |-> TRUE, read |-> TRUE]

\* place_reviews(place_id) against cache, the provider answering outcome
\* (Raise, or Ok(list of raw review texts)); called is TRUE when the
\* provider was queried
place_reviews(cache, place_id, outcome) ==
    IF place_id = "" THEN [texts |-> <<>>, cache |-> cache, called |-> FALSE, read |-> FALSE]
    ELSE IF DictHas(cache, place_id)
    THEN [texts |-> DictAt(cache, place_id).v, cache |-> cache, called |-> FALSE, read |-> TRUE]
    ELSE IF ~outcome.ok
    THEN [texts |-> <<>>, cache |-> cache, called |-> TRUE, read |-> TRUE]
    ELSE LET texts == texts_of(outcome.v)
             room == IF Len(cache) >= REVIEWS_CACHE_MAX THEN DictPopFirst(cache) ELSE cache
         IN [texts |-> texts,
             cache |-> DictSet(room, place_id, [k |-> place_id, v |-> texts]),
             called |-> TRUE, read |-> TRUE]

(***************************************************************************)
(* /suggest helpers                                                        *)
(***************************************************************************)
IsDigit(c) == IndexIn(DIGITS, c) > 0

IsWordChar(c) == IndexIn(LOWER, c) > 0 \/ IndexIn(UPPER, c) > 0 \/ IsDigit(c) \/ c = "_"

RECURSIVE LeadingDigits(_)
LeadingDigits(t) ==
    IF t # "" /\ IsDigit(Char(t, 1)) THEN 1 + LeadingDigits(Tail1(t)) ELSE 0

\* _STREET_NUMBER_RE.match(t):  ^\s*\d{1,6}\s+\S+
street_number_match(t) ==
    LET u == LStrip(t)
        n == LeadingDigits(u)
    IN /\ n >= 1 /\ n <= 6
       /\ n < Len(u)
       /\ IsSpace(Char(u, n + 1))
       /\ LStrip(SubSeq(u, n + 1, Len(u))) # ""

\* \bword\b somewhere in t
HasWord(t, word) ==
    \E i \in 1..(Len(t) - Len(word) + 1) :
        /\ SubSeq(t, i, i + Len(word) - 1) = word
        /\ (i = 1 \/ ~IsWordChar(Char(t, i - 1)))
        /\ (i + Len(word) - 1 = Len(t) \/ ~IsWordChar(Char(t, i + Len(word))))

\* _SUITE_RE.search(t):  \b(ste|suite)\b, ignoring case
suite_search(t) == HasWord(Lower(t), "ste") \/ HasWord(Lower(t), "suite")

looks_location_like(label) ==
    LET s == Strip(label)
        t == Lower(s)
    IN IF s = "" THEN FALSE
       ELSE IF street_number_match(t) THEN FALSE
       ELSE IF suite_search(t) \/ Contains(t, "#") THEN FALSE
       ELSE Contains(s, ",")

suggest_cache_key(q, limit) == Lower(Strip(q)) \o "||" \o ToString(limit)

\* _suggest_cache_get that takes an entry of exactly the time-to-live as expired
suggest_cache_get_expiring_at_ttl(cache, key, t) ==
    IF ~DictHas(cache, key) THEN [value |-> None, cache |-> cache]
    ELSE IF t - DictAt(cache, key).ts >= SUGGEST_CACHE_TTL_S
    THEN [value |-> None, cache |-> DictPop(cache, key)]
    ELSE [value |-> Some(DictAt(cache, key).value), cache |-> cache]

\* _suggest_cache_get(key) at time t: the value found (None on a miss) and
\* the cache it leaves
suggest_cache_get(cache, key, t) ==
    IF ~DictHas(cache, key) THEN [value |-> None, cache |-> cache]
    ELSE IF t - DictAt(cache, key).ts > SUGGEST_CACHE_TTL_S
    THEN [value |-> None, cache |-> DictPop(cache, key)]
    ELSE [value |-> Some(DictAt(cache, key).value), cache |-> cache]

suggest_cache_set(cache, key, value, t) ==
    LET room == IF Len(cache) >= SUGGEST_CACHE_MAX THEN DictPopFirst(cache) ELSE cache
    IN DictSet(room, key, [k |-> key, ts |-> t, value |-> value])

\* the loop of suggest over the provider's places
RECURSIVE suggestions_of(_, _, _)
suggestions_of(places, limit, acc) ==
    IF places = <<>> \/ Len(acc) >= limit THEN acc
    ELSE LET p == Head(places)
             name == Strip(Get(p, "displayName", ""))
             addr == Strip(Get(p, "formattedAddress", ""))
             label == IF addr # "" THEN addr ELSE name
         IN IF name = "" /\ addr = "" THEN suggestions_of(Tail(places), limit, acc)
            ELSE IF ~looks_location_like(label) THEN suggestions_of(Tail(places), limit, acc)
            ELSE suggestions_of(Tail(places), limit,
                                Append(acc, [label |-> label, name |-> name, address |-> addr]))

(***************************************************************************)
(* The provider: what the places API may answer                            *)
(***************************************************************************)
MaxPlaces == 6

MaxSuggestPlaces == 2

Stride == 4

ADDR(n) == n \o " Spring St, Paso Robles, CA"

PhoCorner == [id |-> "pho-corner", displayName |-> "Pho Corner", formattedAddress |-> ADDR("1"),
              rating |-> 39, userRatingCount |-> 5, primaryType |-> "vietnamese_restaurant",
              types |-> <<"vietnamese_restaurant", "restaurant">>, location |-> 12000]

PhoSaigon == [id |-> "pho-saigon", displayName |-> "Pho Saigon", formattedAddress |-> ADDR("2"),
              rating |-> 44, userRatingCount |-> 200, primaryType |-> "restaurant",
              types |-> <<"restaurant", " Vietnamese_Restaurant">>, location |-> 4000]

Barbers == [id |-> "barbers", displayName |-> "Main St Barbers", formattedAddress |-> ADDR("3"),
            rating |-> 48, userRatingCount |-> 160, primaryType |-> "hair_salon",
            types |-> <<"hair_salon">>, location |-> 500]

GreatClips == [id |-> "clips", displayName |-> "Great Clips", formattedAddress |-> ADDR("4"),
               rating |-> 45, userRatingCount |-> 300, primaryType |-> "hair_salon",
               types |-> <<"hair_salon">>, location |-> 700]

CornerSlice == [id |-> "corner", displayName |-> "Corner Slice", formattedAddress |-> ADDR("5"),
                rating |-> 42, userRatingCount |-> 40, primaryType |-> "pizza_restaurant",
                types |-> <<"pizza_restaurant">>, location |-> 6000]

Luigi == [id |-> "luigi", displayName |-> "Luigi's Pizza", formattedAddress |-> ADDR("6"),
          rating |-> 46, userRatingCount |-> 400, primaryType |-> "pizza_restaurant",
          types |-> <<"pizza_restaurant", "restaurant">>, location |-> 1000,
          businessStatus |-> "OPERATIONAL", openNow |-> TRUE]

Nonna == [id |-> "nonna", displayName |-> "Nonna Pizzeria", formattedAddress |-> ADDR("7"),
          rating |-> 45, userRatingCount |-> 300, primaryType |-> "pizza_restaurant",
          types |-> <<"pizza_restaurant">>, location |-> 3000]

SliceHouse == [id |-> "slice", displayName |-> "Slice House", formattedAddress |-> ADDR("8"),
               rating |-> 43, userRatingCount |-> 150, primaryType |-> "pizza_restaurant",
               types |-> <<"pizza_restaurant">>, location |-> 8046]

Roma == [id |-> "roma", displayName |-> "Trattoria Roma", formattedAddress |-> ADDR("9"),
         rating |-> 47, userRatingCount |-> 900, primaryType |-> "italian_restaurant",
         types |-> <<"italian_restaurant", "restaurant">>, location |-> 2000]

PizzaCart == [id |-> "", displayName |-> "Pizza Cart", formattedAddress |-> ADDR("10"),
              rating |-> 44, userRatingCount |-> 180, primaryType |-> "pizza_restaurant",
              types |-> <<"pizza_restaurant">>]

\* a second listing of Luigi's: same venue, other spelling
LuigiDup == [id |-> "luigi", displayName |-> " LUIGI'S PIZZA ", formattedAddress |-> Upper(ADDR("6")),
             rating |-> 42, userRatingCount |-> 100, primaryType |-> "pizza_restaurant",
             types |-> <<"pizza_restaurant">>, location |-> 1000]

FarPizza == [id |-> "far", displayName |-> "Far Pizza", formattedAddress |-> ADDR("12"),
             rating |-> 45, userRatingCount |-> 350, primaryType |-> "pizza_restaurant",
             types |-> <<"pizza_restaurant">>, location |-> 12000]

BuzzPizza == [id |-> "buzz", displayName |-> "Buzz Pizza", formattedAddress |-> ADDR("13"),
              rating |-> 38, userRatingCount |-> 25, primaryType |-> "pizza_restaurant",
              types |-> <<"pizza_restaurant">>, location |-> 30000]

PizzaHut == [id |-> "hut", displayName |-> "Pizza Hut Express", formattedAddress |-> ADDR("14"),
             rating |-> 48, userRatingCount |-> 2000, primaryType |-> "pizza_restaurant",
             types |-> <<"pizza_restaurant">>, location |-> 1500]

McD == [id |-> "mcd", displayName |-> "McDONALD'S", formattedAddress |-> ADDR("15"),
        rating |-> 49, userRatingCount |-> 9000, primaryType |-> "hamburger_restaurant",
        types |-> <<"hamburger_restaurant">>, location |-> 1200]

OldMill == [id |-> "mill", displayName |-> "Old Mill Pizza", formattedAddress |-> ADDR("16"),
            rating |-> 49, userRatingCount |-> 1000, primaryType |-> "pizza_restaurant",
            types |-> <<"pizza_restaurant">>, location |-> 900,
            businessStatus |-> "CLOSED_PERMANENTLY"]

Bella == [id |-> "bella", displayName |-> "Bella Napoli", formattedAddress |-> ADDR("17"),
          rating |-> 46, userRatingCount |-> 500, primaryType |-> "pizza_restaurant",
          types |-> <<"pizza_restaurant">>, location |-> 1100,
          businessStatus |-> "closed_temporarily", openNow |-> TRUE]

NightOwl == [id |-> "owl", displayName |-> "Night Owl Pizza", formattedAddress |-> ADDR("18"),
             rating |-> 47, userRatingCount |-> 600, primaryType |-> "pizza_restaurant",
             types |-> <<"pizza_restaurant">>, location |-> 1300,
             businessStatus |-> "OPERATIONAL", openNow |-> FALSE]

NewPlace == [id |-> "new", displayName |-> "New Pizza Place", formattedAddress |-> ADDR("19"),
             primaryType |-> "pizza_restaurant", types |-> <<"pizza_restaurant">>,
             location |-> 2500]

Blank == [id |-> "blank", displayName |-> "   ", formattedAddress |-> ADDR("20"),
          rating |-> 48, userRatingCount |-> 500, primaryType |-> "pizza_restaurant",
          types |-> <<"pizza_restaurant">>, location |-> 100]

Distant == [id |-> "distant", displayName |-> "Distant Pizza", formattedAddress |-> ADDR("21"),
            rating |-> 46, userRatingCount |-> 400, primaryType |-> "pizza_restaurant",
            types |-> <<"pizza_restaurant">>, location |-> 45000]

Catalogue ==
    << PhoCorner, PhoSaigon, Barbers, GreatClips, CornerSlice, Luigi, Nonna, SliceHouse,
       Roma, PizzaCart, LuigiDup, FarPizza, BuzzPizza, PizzaHut, McD, OldMill, Bella,
       NightOwl, NewPlace, Blank, Distant >>

\* the runs of at most n consecutive places of s that start at one of every
\* stride-th place
Windows(s, n, stride) ==
    {SubSeq(s, w[1], w[1] + w[2] - 1) :
        w \in {v \in {1 + stride * k : k \in 0..Len(s)} \X (0..n) : v[1] + v[2] - 1 <= Len(s)}}

\* places_text_search either raises or returns the provider's places
SearchAnswers == {Raise} \cup {Ok(w) : w \in Windows(Catalogue, MaxPlaces, Stride)}

\* the first place of the center lookup: no place, no location, a location
\* without longitude, a full location; or the call fails
CenterAnswers ==
    {Raise,
     Ok(<<>>),
     Ok(<<[displayName |-> "Paso Robles"]>>),
     Ok(<<[displayName |-> "Paso Robles", location |-> [latitude |-> 35]]>>),
     Ok(<<[displayName |-> "Paso Robles", location |-> [latitude |-> 35, longitude |-> -120]]>>)}

\* the raw review texts the provider holds for a place id (none for an
\* unknown id)
ProviderReviews ==
    ("luigi" :> <<"  ", "The margherita pizza and the pho were great. Pizza again!">>)
    @@ ("pho-saigon" :> <<"Best pho tai in town. Get the pho!">>)
    @@ ("roma" :> <<"Friendly staff, fair prices.">>)
    @@ ("barbers" :> <<"Great fade, quick coffee while you wait.">>)
    @@ ("far" :> <<" Thin crust pie, worth the drive. ">>)

reviews_on_file(place_id) ==
    IF place_id \in DOMAIN ProviderReviews THEN ProviderReviews[place_id] ELSE <<>>

\* at most MaxFaults review fetches of a request fail
MaxFaults == 1

SuggestCatalogue ==
    << [displayName |-> "Paso Robles", formattedAddress |-> "Paso Robles, CA"],
       [displayName |-> "Pasolivo", formattedAddress |-> "8530 Vineyard Dr, Paso Robles, CA"],
       [displayName |-> "Paso"],
       [formattedAddress |-> "Pasadena, CA"] >>

SuggestAnswers == {Raise} \cup {Ok(w) : w \in Windows(SuggestCatalogue, MaxSuggestPlaces, 1)}

Locations == {"Paso Robles, CA", "  "}

Cuisines == {None, Some(" Pizza"), Some("pho"), Some("barber")}

Modes == {"strict", "best", " Hype", "fast"}

SuggestQueries == {"pa", " Paso"}

SuggestLimits == {1, 6}

PlaceSet == {Catalogue[i] : i \in 1..Len(Catalogue)}

\* the values allowed_types can take
LockSets == {None} \cup {Some(CUISINE_TYPE_LOCK[k]) : k \in DOMAIN CUISINE_TYPE_LOCK}

(***************************************************************************)
(* build_picks: filter, rank, truncate, shape                              *)
(***************************************************************************)
\* what build_picks computes of a place from the place alone (the string work
\* of its two loops): placed in a table over the provider's places so that it
\* is evaluated once per place
place_facts(p) ==
    [is_closed_place |-> is_closed_place(p),
     name |-> Strip(Get(p, "displayName", "")),
     is_chain |-> is_chain(Strip(Get(p, "displayName", ""))),
     matches_type_lock |-> [allowed \in LockSets |-> matches_type_lock(p, allowed)],
     key |-> key_for(p),
     place_id |-> Strip(Get(p, "id", "")),
     addr |-> Strip(Get(p, "formattedAddress", ""))]

PlaceTable == [p \in PlaceSet |-> place_facts(p)]

facts(p) == IF p \in PlaceSet THEN PlaceTable[p] ELSE place_facts(p)

\* the filter loop of build_picks without its distance step
passes_any_distance(f, p, min_rating, min_reviews, allowed_types, center, max_radius_m) ==
    /\ ~f.is_closed_place
    /\ f.name # ""
    /\ ~f.is_chain
    /\ IF allowed_types \in LockSets THEN f.matches_type_lock[allowed_types]
       ELSE matches_type_lock(p, allowed_types)
    /\ ~(Get(p, "rating", 0) < min_rating \/ Get(p, "userRatingCount", 0) < min_reviews)

\* the filter loop of build_picks for a place p with facts f: TRUE when no
\* continue  is taken
passes(f, p, min_rating, min_reviews, allowed_types, center, max_radius_m) ==
    /\ ~f.is_closed_place
    /\ f.name # ""
    /\ ~f.is_chain
    /\ IF allowed_types \in LockSets THEN f.matches_type_lock[allowed_types]
       ELSE matches_type_lock(p, allowed_types)
    /\ ~(Get(p, "rating", 0) < min_rating \/ Get(p, "userRatingCount", 0) < min_reviews)
    /\ ~(/\ center # None
         /\ max_radius_m # None /\ max_radius_m # Some(0)
         /\ "location" \in DOMAIN p
         /\ p.location > max_radius_m[1])

survives(p, min_rating, min_reviews, allowed_types, center, max_radius_m) ==
    passes(facts(p), p, min_rating, min_reviews, allowed_types, center, max_radius_m)

\* a descending sort that puts a place before the earlier places of equal key
RECURSIVE sorted_desc_ties_reversed(_, _)
sorted_desc_ties_reversed(s, sorter) ==
    IF s = <<>> THEN <<>>
    ELSE LET init == sorted_desc_ties_reversed(SubSeq(s, 1, Len(s) - 1), sorter)
             p == s[Len(s)]
             k == Cardinality({i \in 1..Len(init) :
                                  Score(sorter, init[i]) > Score(sorter, p)})
         IN SubSeq(init, 1, k) \o <<p>> \o SubSeq(init, k + 1, Len(init))

\* sorted(filtered, key=sorter, reverse=True): stable, equal keys keep their order
RECURSIVE sorted_desc(_, _)
sorted_desc(s, sorter) ==
    IF s = <<>> THEN <<>>
    ELSE LET init == sorted_desc(SubSeq(s, 1, Len(s) - 1), sorter)
             p == s[Len(s)]
             k == Cardinality({i \in 1..Len(init) :
                                  Score(sorter, init[i]) >= Score(sorter, p)})
         IN SubSeq(init, 1, k) \o <<p>> \o SubSeq(init, k + 1, Len(init))

\* the dict appended to picks; src is the provider place the pick was made
\* from and made_at the max_radius_m of the build_picks call that made it
\* (both kept for stating properties; the response does not carry them).
\* confidence_explainer, links and photo_url are display strings derived from
\* the same place and are not modelled.
pick_from(f, p, rating, reviews, center, max_radius_m) ==
    [key |-> f.key,
     place_id |-> f.place_id,
     name |-> f.name,
     location |-> f.addr,
     rating |-> rating,
     reviews |-> reviews,
     confidence |-> confidence_label(rating, reviews),
     why |-> "",
     order |-> GENERIC_ORDER,
     also_in_strict |-> FALSE,
     hype_reason |-> hype_reason(rating, reviews),
     distance_miles |-> IF center # None /\ "location" \in DOMAIN p
                        THEN Some(distance_miles_of(p.location))
                        ELSE None,
     src |-> p,
     made_at |-> max_radius_m]

pick_of(p, center, max_radius_m) ==
    pick_from(facts(p), p, Get(p, "rating", 0), Get(p, "userRatingCount", 0), center,
              max_radius_m)

\* s[:n]
Take(s, n) == SubSeq(s, 1, Min(n, Len(s)))

picks_of(ranked, center, max_radius_m) ==
    [i \in 1..Len(ranked) |-> pick_of(ranked[i], center, max_radius_m)]

build_picks(places, min_rating, min_reviews, sorter, allowed_types, center, max_radius_m) ==
    LET Keep(p) == survives(p, min_rating, min_reviews, allowed_types, center, max_radius_m)
    IN picks_of(Take(sorted_desc(SelectSeq(places, Keep), sorter), 12), center, max_radius_m)

\* the overlapping picks left unflagged
mark_overlaps_unflagged(hits) == hits

\* p["also_in_strict"] = True on every pick of the list
mark_overlaps(hits) == [i \in 1..Len(hits) |-> [hits[i] EXCEPT !.also_in_strict = TRUE]]

\* prefer_new_first with the two groups in the other order
prefer_new_first_overlaps_first(picks, strict_keys) ==
    LET IsNew(p) == p.key \notin strict_keys
        IsOverlap(p) == p.key \in strict_keys
    IN Take(mark_overlaps(SelectSeq(picks, IsOverlap)) \o SelectSeq(picks, IsNew), 5)

\* prefer_new_first without the cut to 5 picks
prefer_new_first_untruncated(picks, strict_keys) ==
    LET IsNew(p) == p.key \notin strict_keys
        IsOverlap(p) == p.key \in strict_keys
    IN SelectSeq(picks, IsNew) \o mark_overlaps(SelectSeq(picks, IsOverlap))

prefer_new_first(picks, strict_keys) ==
    LET IsNew(p) == p.key \notin strict_keys
        IsOverlap(p) == p.key \in strict_keys
    IN Take(SelectSeq(picks, IsNew) \o mark_overlaps(SelectSeq(picks, IsOverlap)), 5)

\* build_with_type_fallback that falls back at  len(picks) <= want_at_least
build_with_type_fallback_at_equal(places, min_rating, min_reviews, sorter, allowed_types, want_at_least, center, max_radius_m, allow_type_fallback) ==
    LET Choose(picks, unlocked) ==
            IF ~allow_type_fallback THEN [picks |-> picks, used |-> FALSE]
            ELSE IF allowed_types # None /\ allowed_types # Some({})
                    /\ Len(picks) <= want_at_least
            THEN [picks |-> unlocked, used |-> TRUE]
            ELSE [picks |-> picks, used |-> FALSE]
    IN Choose(build_picks(places, min_rating, min_reviews, sorter, allowed_types, center,
                          max_radius_m),
              build_picks(places, min_rating, min_reviews, sorter, None, center,
                          max_radius_m))

\* picks is the locked build_picks, unlocked the second build_picks call, made
\* only when the first is short
build_with_type_fallback(places, min_rating, min_reviews, sorter, allowed_types, want_at_least, center, max_radius_m, allow_type_fallback) ==
    LET Choose(picks, unlocked) ==
            IF ~allow_type_fallback THEN [picks |-> picks, used |-> FALSE]
            ELSE IF allowed_types # None /\ allowed_types # Some({})
                    /\ Len(picks) < want_at_least
            THEN [picks |-> unlocked, used |-> TRUE]
            ELSE [picks |-> picks, used |-> FALSE]
    IN Choose(build_picks(places, min_rating, min_reviews, sorter, allowed_types, center,
                          max_radius_m),
              build_picks(places, min_rating, min_reviews, sorter, None, center,
                          max_radius_m))

(***************************************************************************)
(* State                                                                   *)
(***************************************************************************)
VARIABLES
    GOOGLE_KEY,      \* the credential read at import time ("" when unset)
    REVIEWS_CACHE,   \* _REVIEWS_CACHE: entries [k, v] in insertion order
    SUGGEST_CACHE,   \* _SUGGEST_CACHE: entries [k, ts, value] in insertion order
    now,             \* time.time()
    pc,              \* where the request being served stands
    loc,             \* the local variables of lrs
    run,             \* the build_with_type_fallback call that just returned
    calls,           \* the provider calls issued so far, in order
    cache_ops,       \* the cache reads and writes so far, in order
    faults,          \* the review fetches that failed so far
    response         \* what the handler returned

vars == <<GOOGLE_KEY, REVIEWS_CACHE, SUGGEST_CACHE, now, pc, loc, run, calls, cache_ops, faults,
          response>>

NoRun == [attempt |-> "none"]

NoResponse == [kind |-> "none"]

STRICT_PRIMARY == miles_to_meters(5)

STRICT_MAX == miles_to_meters(10)

BEST_PRIMARY == miles_to_meters(10)

BEST_MAX == miles_to_meters(15)

HYPE_PRIMARY == miles_to_meters(10)

HYPE_MAX == miles_to_meters(25)

HYPE_DISTANCE_LINES ==
    << "Popularity isn't always neighborhood-bound.",
       "Popular spots often draw people from farther away.",
       "Hype isn't always right around the corner.",
       "This kind of popularity isn't always local.",
       "This kind of buzz isn't always local." >>

hype_distance_line(location, cuisine) ==
    LET key == "hype_distance|" \o Lower(Strip(location)) \o "|" \o Lower(Strip(cuisine))
    IN HYPE_DISTANCE_LINES[stable_pick_index(key, Len(HYPE_DISTANCE_LINES)) + 1]

UNRESOLVED_NOTE == "I couldn't confidently interpret that location. Try adding a nearby city/state (example: 'Downtown San Jose, CA')."

STRICT_WIDE_NOTE == "This area is limited for that search, so I widened the search up to 10 miles."

BEST_WIDE_NOTE == "This area is limited for that search, so I widened the search up to 15 miles."

MODE_ERROR == "mode must be: strict, best, or hype"

KEY_ERROR == "Missing GOOGLE_PLACES_API_KEY"

\* the credential check left out
credential_unchecked(key) == FALSE

\* if not GOOGLE_KEY
credential_missing(key) == key = ""

\* the center check left out
center_unchecked(center) == FALSE

\* if not center
center_unresolved(center) == center = None

\* lock_fallback_allowed that forgets the dish terms
lock_fallback_allowed_non_food_only(is_non_food, is_dish_term) == ~is_non_food

\* lock_fallback_allowed = not (is_non_food or is_dish_term)
lock_fallback_allowed(is_non_food, is_dish_term) == ~(is_non_food \/ is_dish_term)

\* if len(picks) < want_at_least: the attempt at the primary radius is short
too_few(picks, want_at_least) == Len(picks) < want_at_least

\* the attempt at the maximum radius kept on a tie too
wide_wins_on_tie(picks_wide, picks) == Len(picks_wide) >= Len(picks)

\* if len(picks_wide) > len(picks): the attempt at the maximum radius is kept
wide_wins(picks_wide, picks) == Len(picks_wide) > Len(picks)

\* location_center_from_text: the center (None when unresolved) and whether
\* the provider was queried
location_center_from_text(location_text, answer) ==
    IF Strip(location_text) = "" THEN [center |-> None, called |-> FALSE]
    ELSE IF ~answer.ok THEN [center |-> None, called |-> TRUE]
    ELSE LET places == answer.v IN
         IF places = <<>> THEN [center |-> None, called |-> TRUE]
         ELSE IF "location" \notin DOMAIN places[1] THEN [center |-> None, called |-> TRUE]
         ELSE IF {"latitude", "longitude"} \subseteq DOMAIN places[1].location
         THEN [center |-> Some([latitude |-> places[1].location.latitude,
                                longitude |-> places[1].location.longitude]),
               called |-> TRUE]
         ELSE [center |-> None, called |-> TRUE]

\* lrs, from the mode normalisation to allowed_types
setup(location, cuisine, mode_in) ==
    LET mode == Strip(Lower(IF mode_in = "" THEN "strict" ELSE mode_in))
        cuisine_clean == Strip(IF cuisine = None THEN "" ELSE cuisine[1])
        cuisine_key == Strip(Lower(cuisine_clean))
        is_non_food == cuisine_key \in NON_FOOD_CATEGORIES
        alias_cuisine == IF cuisine_key # "" THEN DictGet(DISH_ALIASES, cuisine_key) ELSE None
        is_dish_term == alias_cuisine # None /\ alias_cuisine # Some("")
                        /\ alias_cuisine # Some(cuisine_key)
        cuisine_for_type_lock == IF alias_cuisine # None /\ alias_cuisine # Some("")
                                 THEN alias_cuisine[1] ELSE cuisine_key
        cuisine_for_query == cuisine_clean
        cuisine_for_reviews == IF cuisine_key \in DOMAIN DISH_KEYWORDS THEN cuisine_key
                               ELSE IF alias_cuisine # None /\ alias_cuisine # Some("")
                               THEN alias_cuisine[1] ELSE cuisine_key
        base == IF is_non_food \/ is_dish_term
                THEN Strip(cuisine_for_query \o " in " \o location)
                ELSE Strip((IF cuisine_for_query # "" THEN cuisine_for_query \o " " ELSE "")
                           \o "restaurants in " \o location)
    IN [location |-> location,
        mode |-> mode,
        cuisine_clean |-> cuisine_clean,
        cuisine_key |-> cuisine_key,
        is_non_food |-> is_non_food,
        alias_cuisine |-> alias_cuisine,
        is_dish_term |-> is_dish_term,
        cuisine_for_type_lock |-> cuisine_for_type_lock,
        cuisine_for_reviews |-> cuisine_for_reviews,
        base |-> base,
        strict_query |-> Strip("best " \o base),
        best_query |-> base,
        hype_query |-> Strip("Popular " \o base),
        allowed_types |-> cuisine_lock_types(Some(cuisine_for_type_lock)),
        lock_fallback_allowed |-> lock_fallback_allowed(is_non_food, is_dish_term),
        center |-> None,
        strict_picks |-> <<>>,
        strict_keys |-> {},
        strict_fallback_used |-> None,
        picks |-> <<>>,
        n_primary |-> None,
        n_wide |-> None,
        raw_primary |-> None,
        raw_wide |-> None,
        fallback_used |-> None,
        fallback_used_wide |-> None,
        used_wide |-> FALSE,
        limitation |-> None,
        i |-> 1]

\* the best block with the relaxed thresholds for every cuisine
best_thresholds_always_relaxed(L) ==
    [min_rating |-> 38, min_reviews |-> 1, want_at_least |-> IF L.is_non_food THEN 1 ELSE 3]

\* best_min_rating, best_min_reviews, want_at_least of the best block
best_thresholds(L) ==
    LET relaxed == L.is_dish_term \/ L.cuisine_key \in {"pho"} IN
    [min_rating |-> IF relaxed THEN 38 ELSE 41,
     min_reviews |-> IF relaxed THEN 1 ELSE 30,
     want_at_least |-> IF L.is_non_food THEN 1 ELSE IF relaxed THEN 1 ELSE 3]

search_call(query, radius_m) ==
    [fn |-> "places_text_search", query |-> query, radius_m |-> Some(radius_m)]

\* one pipeline run of the handler, with what went in and what came out
attempt_of(name, places, min_rating, min_reviews, sorter, L, want_at_least, max_radius_m) ==
    LET Record(r) ==
            [attempt |-> name, places |-> places, min_rating |-> min_rating,
             min_reviews |-> min_reviews, sorter |-> sorter, allowed_types |-> L.allowed_types,
             want_at_least |-> want_at_least, max_radius_m |-> max_radius_m,
             allow_type_fallback |-> L.lock_fallback_allowed,
             picks |-> r.picks, used |-> r.used]
    IN Record(build_with_type_fallback(places, min_rating, min_reviews, sorter, L.allowed_types,
                                       want_at_least, L.center, Some(max_radius_m),
                                       L.lock_fallback_allowed))

Take5(s) == Take(s, 5)

KeysOf(picks) == {picks[i].key : i \in 1..Len(picks)}

NoLocals == [setup("", None, "") EXCEPT !.mode = "none"]

Init ==
    /\ GOOGLE_KEY \in {"", "test-key"}
    /\ REVIEWS_CACHE = <<>>
    /\ SUGGEST_CACHE = <<>>
    /\ now = 0
    /\ pc = "idle"
    /\ loc = NoLocals
    /\ run = NoRun
    /\ calls = <<>>
    /\ cache_ops = <<>>
    /\ faults = 0
    /\ response = NoResponse

(***************************************************************************)
(* GET /lrs                                                                *)
(***************************************************************************)
\* a failed search answered as a search that found nothing
SearchFailureSwallowed ==
    [kind |-> "picks", picks |-> <<>>, limitation_note |-> None,
     debug |-> [center_resolved |-> TRUE, final_count |-> 0]]

\* the exception of places_text_search leaves the handler
Raised == [kind |-> "raised"]

\* lrs up to the center check: credential, query construction, center lookup
LrsStart(location, cuisine, mode, answer) ==
    /\ pc = "idle"
    /\ IF credential_missing(GOOGLE_KEY)
       THEN /\ response' = [kind |-> "error", error |-> KEY_ERROR]
            /\ pc' = "done"
            /\ UNCHANGED <<loc, calls>>
       ELSE LET L == setup(location, cuisine, mode)
                c == location_center_from_text(location, answer)
            IN /\ calls' = IF c.called
                           THEN Append(calls, [fn |-> "location_center_from_text",
                                               query |-> location, radius_m |-> None])
                           ELSE calls
               /\ IF center_unresolved(c.center)
                  THEN /\ loc' = L
                       /\ response' = [kind |-> "picks",
                                       query |-> L.base,
                                       mode |-> L.mode,
                                       mode_label |-> mode_label(L.mode),
                                       picks |-> <<>>,
                                       limitation_note |-> Some(UNRESOLVED_NOTE),
                                       debug |-> [center_resolved |-> FALSE,
                                                  final_count |-> 0,
                                                  type_lock_active |-> L.allowed_types # None]]
                       /\ pc' = "done"
                  ELSE /\ loc' = [L EXCEPT !.center = c.center]
                       /\ pc' = "strict_baseline"
                       /\ UNCHANGED response
    /\ UNCHANGED <<GOOGLE_KEY, REVIEWS_CACHE, SUGGEST_CACHE, now, run, cache_ops, faults>>

\* lrs after the strict baseline run a over n_places places: strict_picks,
\* strict_keys and the dispatch on mode
StrictBaselineDone(n_places, a) ==
    LET strict_picks == Take5(a.picks)
        L == [loc EXCEPT !.strict_picks = strict_picks,
                         !.strict_keys = KeysOf(strict_picks),
                         !.strict_fallback_used = Some(a.used)]
        S == [L EXCEPT !.picks = Take5(strict_picks),
                       !.n_primary = Some(Len(strict_picks)),
                       !.raw_primary = Some(n_places),
                       !.fallback_used = Some(a.used)]
    IN /\ run' = a
       /\ CASE loc.mode = "strict" ->
                 /\ loc' = S
                 /\ pc' = IF too_few(strict_picks, 3) THEN "strict_wide" ELSE "reviews"
                 /\ UNCHANGED response
            [] loc.mode = "best" ->
                 /\ loc' = L
                 /\ pc' = "best_primary"
                 /\ UNCHANGED response
            [] loc.mode = "hype" ->
                 /\ loc' = L
                 /\ pc' = "hype_primary"
                 /\ UNCHANGED response
            [] OTHER ->
                 /\ loc' = L
                 /\ pc' = "done"
                 /\ response' = [kind |-> "error", error |-> MODE_ERROR]

\* the strict baseline search and pipeline run, and the dispatch on mode
LrsStrictBaseline(answer) ==
    /\ pc = "strict_baseline"
    /\ calls' = Append(calls, search_call(loc.strict_query, STRICT_PRIMARY))
    /\ IF ~answer.ok
       THEN /\ pc' = "done"
            /\ response' = Raised
            /\ UNCHANGED <<loc, run>>
       ELSE StrictBaselineDone(Len(answer.v),
                               attempt_of("strict_primary", answer.v, 43, 150, "score_lrs",
                                          loc, 3, STRICT_PRIMARY))
    /\ UNCHANGED <<GOOGLE_KEY, REVIEWS_CACHE, SUGGEST_CACHE, now, cache_ops, faults>>

\* strict after the run a at the maximum radius over n_places places
StrictWideDone(n_places, a) ==
    LET wins == wide_wins(a.picks, loc.strict_picks)
        strict_picks == IF wins THEN Take5(a.picks) ELSE loc.strict_picks
    IN /\ run' = a
       /\ loc' = [loc EXCEPT !.strict_picks = strict_picks,
                             !.picks = Take5(strict_picks),
                             !.n_wide = Some(Len(a.picks)),
                             !.raw_wide = Some(n_places),
                             !.fallback_used_wide = Some(a.used),
                             !.used_wide = wins,
                             !.limitation = IF wins THEN Some(STRICT_WIDE_NOTE) ELSE None]
       /\ pc' = "reviews"
       /\ UNCHANGED response

\* strict: the search at the 10 mile maximum, kept when it yields more
LrsStrictWide(answer) ==
    /\ pc = "strict_wide"
    /\ calls' = Append(calls, search_call(loc.strict_query, STRICT_MAX))
    /\ IF ~answer.ok
       THEN /\ pc' = "done"
            /\ response' = Raised
            /\ UNCHANGED <<loc, run>>
       ELSE StrictWideDone(Len(answer.v),
                           attempt_of("strict_wide", answer.v, 43, 150, "score_lrs", loc, 3,
                                      STRICT_MAX))
    /\ UNCHANGED <<GOOGLE_KEY, REVIEWS_CACHE, SUGGEST_CACHE, now, cache_ops, faults>>

\* best and hype after the run a at the primary radius over n_places places:
\* on to the maximum radius (pc value wide) when a is short of want_at_least
PrimaryDone(n_places, want_at_least, wide, a) ==
    LET short == too_few(a.picks, want_at_least)
    IN /\ run' = a
       /\ loc' = [loc EXCEPT !.picks = IF short THEN a.picks
                                       ELSE prefer_new_first(a.picks, loc.strict_keys),
                             !.n_primary = Some(Len(a.picks)),
                             !.raw_primary = Some(n_places),
                             !.fallback_used = Some(a.used)]
       /\ pc' = IF short THEN wide ELSE "reviews"
       /\ UNCHANGED response

\* best and hype after the run a at the maximum radius over n_places places;
\* note is the limitation set when a is kept
WideDone(n_places, note, a) ==
    LET wins == wide_wins(a.picks, loc.picks)
        picks == IF wins THEN a.picks ELSE loc.picks
    IN /\ run' = a
       /\ loc' = [loc EXCEPT !.picks = prefer_new_first(picks, loc.strict_keys),
                             !.n_wide = Some(Len(a.picks)),
                             !.raw_wide = Some(n_places),
                             !.fallback_used_wide = Some(a.used),
                             !.used_wide = wins,
                             !.limitation = IF wins THEN note ELSE None]
       /\ pc' = "reviews"
       /\ UNCHANGED response

\* best: the search at 10 miles
LrsBestPrimary(answer) ==
    /\ pc = "best_primary"
    /\ calls' = Append(calls, search_call(loc.best_query, BEST_PRIMARY))
    /\ IF ~answer.ok
       THEN /\ pc' = "done"
            /\ response' = Raised
            /\ UNCHANGED <<loc, run>>
       ELSE LET t == best_thresholds(loc) IN
            PrimaryDone(Len(answer.v), t.want_at_least, "best_wide",
                        attempt_of("best_primary", answer.v, t.min_rating, t.min_reviews,
                                   "score_lrs", loc, t.want_at_least, BEST_PRIMARY))
    /\ UNCHANGED <<GOOGLE_KEY, REVIEWS_CACHE, SUGGEST_CACHE, now, cache_ops, faults>>

\* best: the search at the 15 mile maximum, kept when it yields more
LrsBestWide(answer) ==
    /\ pc = "best_wide"
    /\ calls' = Append(calls, search_call(loc.best_query, BEST_MAX))
    /\ IF ~answer.ok
       THEN /\ pc' = "done"
            /\ response' = Raised
            /\ UNCHANGED <<loc, run>>
       ELSE LET t == best_thresholds(loc) IN
            WideDone(Len(answer.v), Some(BEST_WIDE_NOTE),
                     attempt_of("best_wide", answer.v, t.min_rating, t.min_reviews,
                                "score_lrs", loc, t.want_at_least, BEST_MAX))
    /\ UNCHANGED <<GOOGLE_KEY, REVIEWS_CACHE, SUGGEST_CACHE, now, cache_ops, faults>>

\* hype: the search at 10 miles
LrsHypePrimary(answer) ==
    /\ pc = "hype_primary"
    /\ calls' = Append(calls, search_call(loc.hype_query, HYPE_PRIMARY))
    /\ IF ~answer.ok
       THEN /\ pc' = "done"
            /\ response' = Raised
            /\ UNCHANGED <<loc, run>>
       ELSE PrimaryDone(Len(answer.v), 3, "hype_wide",
                        attempt_of("hype_primary", answer.v, 40, 80, "score_hype", loc, 3,
                                   HYPE_PRIMARY))
    /\ UNCHANGED <<GOOGLE_KEY, REVIEWS_CACHE, SUGGEST_CACHE, now, cache_ops, faults>>

\* hype: the search at the 25 mile maximum with the lower thresholds
LrsHypeWide(answer) ==
    /\ pc = "hype_wide"
    /\ calls' = Append(calls, search_call(loc.hype_query, HYPE_MAX))
    /\ IF ~answer.ok
       THEN /\ pc' = "done"
            /\ response' = Raised
            /\ UNCHANGED <<loc, run>>
       ELSE WideDone(Len(answer.v), None,
                     attempt_of("hype_wide", answer.v, 38, 20, "score_hype", loc, 3, HYPE_MAX))
    /\ UNCHANGED <<GOOGLE_KEY, REVIEWS_CACHE, SUGGEST_CACHE, now, cache_ops, faults>>

\* most_mentioned_dish on the texts place_reviews can return for the cuisines
\* of the model's requests, evaluated once
ReviewTexts == {texts_of(ProviderReviews[k]) : k \in DOMAIN ProviderReviews} \cup {<<>>}

ReviewCuisines == {setup("", c, "").cuisine_for_reviews : c \in Cuisines}

DishTable ==
    [texts \in ReviewTexts |-> [cuisine \in ReviewCuisines |-> most_mentioned_dish(texts, cuisine)]]

dish_of(texts, cuisine) ==
    IF texts \in ReviewTexts /\ cuisine \in ReviewCuisines THEN DishTable[texts][cuisine]
    ELSE most_mentioned_dish(texts, cuisine)

\* add_order_from_reviews: one turn of its loop, for pick number loc.i
LrsReview(fails) ==
    /\ pc = "reviews"
    /\ loc.i <= Len(loc.picks)
    /\ fails => faults < MaxFaults
    /\ LET p == loc.picks[loc.i]
           pid == Strip(p.place_id)
           answer == IF fails THEN Raise ELSE Ok(reviews_on_file(pid))
           r == place_reviews(REVIEWS_CACHE, pid, answer)
           dish == dish_of(r.texts, loc.cuisine_for_reviews)
       IN /\ REVIEWS_CACHE' = r.cache
          /\ calls' = IF r.called
                      THEN Append(calls, [fn |-> "place_reviews", query |-> pid,
                                          radius_m |-> None])
                      ELSE calls
          /\ cache_ops' = cache_ops
                          \o (IF r.read THEN <<"reviews.get">> ELSE <<>>)
                          \o (IF r.called /\ answer.ok THEN <<"reviews.set">> ELSE <<>>)
          /\ faults' = IF r.called /\ fails THEN faults + 1 ELSE faults
          /\ loc' = [loc EXCEPT !.picks[loc.i].order = order_line(p.name, dish),
                                !.i = loc.i + 1]
    /\ run' = NoRun
    /\ UNCHANGED <<GOOGLE_KEY, SUGGEST_CACHE, now, pc, response>>

\* what the handler returns of a pick: why filled in, key and place_id removed
public_pick(mode, p) ==
    [f \in DOMAIN p \ {"key", "place_id"} |->
        IF f = "why" THEN why_line(mode, p.name, p.rating, p.reviews) ELSE p[f]]

\* the why lines, the debug object and the return of the mode's block
LrsRespond ==
    /\ pc = "reviews"
    /\ loc.i > Len(loc.picks)
    /\ LET picks == [i \in 1..Len(loc.picks) |-> public_pick(loc.mode, loc.picks[i])]
           limitation == IF loc.mode = "hype"
                         THEN IF loc.used_wide
                              THEN Some(hype_distance_line(loc.location, loc.cuisine_clean)
                                        \o " Showing hype picks up to 25 miles.")
                              ELSE None
                         ELSE loc.limitation
           primary == CASE loc.mode = "strict" -> STRICT_PRIMARY
                        [] loc.mode = "best" -> BEST_PRIMARY
                        [] OTHER -> HYPE_PRIMARY
           max == CASE loc.mode = "strict" -> STRICT_MAX
                    [] loc.mode = "best" -> BEST_MAX
                    [] OTHER -> HYPE_MAX
       IN response' = [kind |-> "picks",
                       query |-> CASE loc.mode = "strict" -> loc.strict_query
                                   [] loc.mode = "best" -> loc.best_query
                                   [] OTHER -> loc.hype_query,
                       mode |-> loc.mode,
                       mode_label |-> mode_label(loc.mode),
                       picks |-> picks,
                       limitation_note |-> limitation,
                       debug |-> [center_resolved |-> TRUE,
                                  final_count |-> Len(picks),
                                  type_lock_active |-> loc.allowed_types # None,
                                  type_lock_fallback_allowed |-> loc.lock_fallback_allowed,
                                  radius_used |-> IF loc.used_wide THEN max ELSE primary,
                                  raw_primary |-> loc.raw_primary,
                                  raw_wide |-> loc.raw_wide,
                                  type_lock_fallback_used |-> loc.fallback_used,
                                  type_lock_fallback_used_wide |-> loc.fallback_used_wide,
                                  widened |-> loc.used_wide]]
    /\ pc' = "done"
    /\ run' = NoRun
    /\ UNCHANGED <<GOOGLE_KEY, REVIEWS_CACHE, SUGGEST_CACHE, now, loc, calls, cache_ops, faults>>

(***************************************************************************)
(* GET /suggest                                                            *)
(***************************************************************************)
Suggest(q, limit, answer) ==
    /\ pc = "idle"
    /\ IF credential_missing(GOOGLE_KEY)
       THEN /\ response' = [kind |-> "suggestions", q |-> q, suggestions |-> <<>>]
            /\ UNCHANGED <<SUGGEST_CACHE, calls, cache_ops>>
       ELSE LET ck == suggest_cache_key(q, limit)
                g == suggest_cache_get(SUGGEST_CACHE, ck, now)
            IN IF g.value # None
               THEN /\ response' = [kind |-> "suggestions", q |-> q, suggestions |-> g.value[1]]
                    /\ SUGGEST_CACHE' = g.cache
                    /\ cache_ops' = Append(cache_ops, "suggest.get")
                    /\ UNCHANGED calls
               ELSE /\ calls' = Append(calls, [fn |-> "places_text_search", query |-> q,
                                               radius_m |-> None])
                    /\ IF ~answer.ok
                       THEN /\ response' = [kind |-> "suggestions", q |-> q,
                                            suggestions |-> <<>>]
                            /\ SUGGEST_CACHE' = g.cache
                            /\ cache_ops' = Append(cache_ops, "suggest.get")
                       ELSE LET suggestions == suggestions_of(answer.v, limit, <<>>)
                            IN /\ response' = [kind |-> "suggestions", q |-> q,
                                               suggestions |-> suggestions]
                               /\ SUGGEST_CACHE' = suggest_cache_set(g.cache, ck, suggestions, now)
                               /\ cache_ops' = cache_ops \o <<"suggest.get", "suggest.set">>
    /\ pc' = "done"
    /\ UNCHANGED <<GOOGLE_KEY, REVIEWS_CACHE, now, loc, run, faults>>

Next ==
    \/ \E location \in Locations, cuisine \in Cuisines, mode \in Modes, answer \in CenterAnswers :
          LrsStart(location, cuisine, mode, answer)
    \/ \E answer \in SearchAnswers : LrsStrictBaseline(answer)
    \/ \E answer \in SearchAnswers : LrsStrictWide(answer)
    \/ \E answer \in SearchAnswers : LrsBestPrimary(answer)
    \/ \E answer \in SearchAnswers : LrsBestWide(answer)
    \/ \E answer \in SearchAnswers : LrsHypePrimary(answer)
    \/ \E answer \in SearchAnswers : LrsHypeWide(answer)
    \/ \E fails \in BOOLEAN : LrsReview(fails)
    \/ LrsRespond
    \/ \E q \in SuggestQueries, limit \in SuggestLimits, answer \in SuggestAnswers :
          Suggest(q, limit, answer)

Spec == Init /\ [][Next]_vars

(***************************************************************************)
(* The functions called on their own                                       *)
(***************************************************************************)
\* the longest list of places build_picks is called with
MaxRanked == 21

\* the lists of places build_picks is called with: runs of the catalogue, which
\* the provider may return more than once over
RankedInputs == Windows(Catalogue \o Catalogue, MaxRanked, Stride)

Sorters == {"score_lrs", "score_hype"}

\* the (min_rating, min_reviews) pairs build_picks is called with: none, and
\* those of best mode
RankedThresholds == {<<0, 0>>, <<41, 30>>}

\* what a function called on its own returned
Returned(fn, args, value) == [kind |-> "returned", fn |-> fn, args |-> args, value |-> value]

\* build_picks(places, min_rating, min_reviews, sorter, allowed_types) with
\* its defaults: no center, no radius
CallBuildPicks(places, min_rating, min_reviews, sorter, allowed_types) ==
    /\ pc = "idle"
    /\ response' = Returned("build_picks",
                            [places |-> places, min_rating |-> min_rating,
                             min_reviews |-> min_reviews, sorter |-> sorter,
                             allowed_types |-> allowed_types],
                            build_picks(places, min_rating, min_reviews, sorter,
                                        allowed_types, None, None))
    /\ pc' = "done"
    /\ UNCHANGED <<GOOGLE_KEY, REVIEWS_CACHE, SUGGEST_CACHE, now, loc, run, calls, cache_ops,
                   faults>>

\* the ratings (in tenths) and review counts confidence_label is called with
Ratings == 0..50

ReviewCounts == {0, 1, 99, 100, 101, 299, 300, 301, 5000}

CallConfidenceLabel(rating, reviews) ==
    /\ pc = "idle"
    /\ response' = Returned("confidence_label", [rating |-> rating, reviews |-> reviews],
                            confidence_label(rating, reviews))
    /\ pc' = "done"
    /\ UNCHANGED <<GOOGLE_KEY, REVIEWS_CACHE, SUGGEST_CACHE, now, loc, run, calls, cache_ops,
                   faults>>

\* the review texts and cuisines most_mentioned_dish is called with
DishTexts ==
    {<<>>,
     <<"I always get the birria tacos, so good">>,
     <<"Birria! Get the BIRRIA; street tacos were fine.">>,
     <<"Friendly staff, fair prices.">>,
     <<"Loved the street", "tacos here">>,
     <<"Best pho tai in town. Get the pho!">>,
     <<"  ", "The margherita pizza and the pho were great. Pizza again!">>,
     <<"Spring-rolls, then banh mi.", "Banh-mi and spring rolls!">>,
     <<"Cheeseburger! Cheeseburger, and a smashburger.">>,
     <<"Pho-tai, pho ga", "pho dac biet">>,
     <<"Street tacos, street tacos. STREET TACOS!">>}

DishCuisines == {"tacos", " Vietnamese", "pizza", "barber", "", "pho", "Burgers"}

CallMostMentionedDish(review_texts, cuisine) ==
    /\ pc = "idle"
    /\ response' = Returned("most_mentioned_dish",
                            [review_texts |-> review_texts, cuisine |-> cuisine],
                            most_mentioned_dish(review_texts, cuisine))
    /\ pc' = "done"
    /\ UNCHANGED <<GOOGLE_KEY, REVIEWS_CACHE, SUGGEST_CACHE, now, loc, run, calls, cache_ops,
                   faults>>

NextCalls ==
    \/ \E review_texts \in DishTexts, cuisine \in DishCuisines :
          CallMostMentionedDish(review_texts, cuisine)
    \/ \E rating \in Ratings, reviews \in ReviewCounts : CallConfidenceLabel(rating, reviews)
    \/ \E places \in RankedInputs, t \in RankedThresholds, sorter \in Sorters,
          allowed_types \in {None, Some(CUISINE_TYPE_LOCK["pizza"])} :
          CallBuildPicks(places, t[1], t[2], sorter, allowed_types)

SpecCalls == Init /\ [][NextCalls]_vars

(***************************************************************************)
(* Requests served one after the other by a process that has run a while   *)
(***************************************************************************)
\* a review cache that n earlier fetches filled, and a suggestion cache that
\* n earlier searches filled at time 0
FilledReviews(n) == [i \in 1..n |-> [k |-> "place-" \o ToString(i), v |-> <<>>]]

FilledSuggest(n) ==
    [i \in 1..n |-> [k |-> "q" \o ToString(i) \o "||6", ts |-> 0, value |-> <<>>]]

\* how full the two caches are when the first request of the model arrives:
\* empty, one entry short of the bound, at the bound
Fills ==
    {<<0, 0>>,
     <<REVIEWS_CACHE_MAX - 1, SUGGEST_CACHE_MAX - 1>>,
     <<REVIEWS_CACHE_MAX, SUGGEST_CACHE_MAX>>}

\* the values time.time() takes, in seconds: an entry stored at 0 is 300
\* seconds old at 300, and one stored at 300 is 301 seconds old at 601
Clock == {0, 300, 601}

InitRequests ==
    /\ GOOGLE_KEY = "test-key"
    /\ \E fill \in Fills :
          /\ REVIEWS_CACHE = FilledReviews(fill[1])
          /\ SUGGEST_CACHE = FilledSuggest(fill[2])
    /\ now = 0
    /\ pc = "idle"
    /\ loc = NoLocals
    /\ run = NoRun
    /\ calls = <<>>
    /\ cache_ops = <<>>
    /\ faults = 0
    /\ response = NoResponse

\* the handler has returned (or raised) and the next request arrives: only
\* the two caches and the clock outlive a request
NextRequest ==
    /\ pc = "done"
    /\ pc' = "idle"
    /\ loc' = NoLocals
    /\ run' = NoRun
    /\ calls' = <<>>
    /\ cache_ops' = <<>>
    /\ faults' = 0
    /\ response' = NoResponse
    /\ UNCHANGED <<GOOGLE_KEY, REVIEWS_CACHE, SUGGEST_CACHE, now>>

\* time passes; the clock is read by suggest only, which is one step, so it
\* is enough that it advances between two requests
Tick ==
    /\ pc = "idle"
    /\ \E t \in Clock : t > now /\ now' = t
    /\ UNCHANGED <<GOOGLE_KEY, REVIEWS_CACHE, SUGGEST_CACHE, pc, loc, run, calls, cache_ops,
                   faults, response>>

\* what the provider answers to the searches of these requests: a failure, or
\* places of which the strict request makes four picks at its primary radius,
\* one with review texts on file, two without, and one without a place id
RequestSearchAnswers == {Raise, Ok(SubSeq(Catalogue, 6, 10))}

RequestSuggestAnswers == {Raise, Ok(SubSeq(SuggestCatalogue, 1, 2))}

RequestCenterAnswer ==
    Ok(<<[displayName |-> "Paso Robles", location |-> [latitude |-> 35, longitude |-> -120]]>>)

\* the (q, limit) pairs of the suggestion requests: one query typed in two
\* ways, and the same query with another limit
RequestSuggestions == {<<" Paso", 6>>, <<"paso", 6>>, <<"paso", 1>>}

NextRequests ==
    \/ LrsStart("Paso Robles, CA", Some(" Pizza"), "strict", RequestCenterAnswer)
    \/ \E answer \in RequestSearchAnswers : LrsStrictBaseline(answer)
    \/ \E fails \in BOOLEAN : LrsReview(fails)
    \/ LrsRespond
    \/ \E r \in RequestSuggestions, answer \in RequestSuggestAnswers :
          Suggest(r[1], r[2], answer)
    \/ NextRequest
    \/ Tick

SpecRequests == InitRequests /\ [][NextRequests]_vars

(***************************************************************************)
(* place_reviews run by several threads at once                            *)
(*                                                                         *)
(* The handlers are plain def functions, which the host runs in a pool of  *)
(* threads: two requests can be inside place_reviews together, and a       *)
(* thread can be suspended between any two of its statements.  In this     *)
(* specification pc, loc and response hold one value for each thread.      *)
(***************************************************************************)
NumThreads == 2

Threads == 1..NumThreads

\* the place ids the threads ask for
ThreadPlaceIds == {"", "luigi", "roma", "far"}

\* the number of entries in the review cache when the threads start
ThreadFills == {0, REVIEWS_CACHE_MAX - 1, REVIEWS_CACHE_MAX}

\* fetched: the texts of a successful fetch; oldest: the key read for eviction
ThreadIdle == [place_id |-> "", fetched |-> None, oldest |-> None]

InitThreads ==
    /\ GOOGLE_KEY = "test-key"
    /\ \E n \in ThreadFills : REVIEWS_CACHE = FilledReviews(n)
    /\ SUGGEST_CACHE = <<>>
    /\ now = 0
    /\ pc = [t \in Threads |-> "idle"]
    /\ loc = [t \in Threads |-> ThreadIdle]
    /\ run = NoRun
    /\ calls = <<>>
    /\ cache_ops = <<>>
    /\ faults = 0
    /\ response = [t \in Threads |-> NoResponse]

\* thread t leaves place_reviews with value
ReviewsReturn(t, value) ==
    /\ pc' = [pc EXCEPT ![t] = "done"]
    /\ response' = [response EXCEPT ![t] = Returned("place_reviews", loc[t].place_id, value)]

\* the empty-id return and the membership test
ReviewsEnter(t, place_id) ==
    /\ pc[t] = "idle"
    /\ loc' = [loc EXCEPT ![t].place_id = place_id]
    /\ IF place_id = ""
       THEN /\ pc' = [pc EXCEPT ![t] = "done"]
            /\ response' = [response EXCEPT ![t] = Returned("place_reviews", place_id, <<>>)]
       ELSE /\ pc' = [pc EXCEPT ![t] = IF DictHas(REVIEWS_CACHE, place_id)
                                       THEN "hit" ELSE "fetch"]
            /\ UNCHANGED response
    /\ UNCHANGED <<GOOGLE_KEY, REVIEWS_CACHE, SUGGEST_CACHE, now, run, calls, cache_ops, faults>>

\* return _REVIEWS_CACHE.get(place_id) or []
ReviewsHit(t) ==
    /\ pc[t] = "hit"
    /\ ReviewsReturn(t, IF DictHas(REVIEWS_CACHE, loc[t].place_id)
                        THEN DictAt(REVIEWS_CACHE, loc[t].place_id).v
                        ELSE <<>>)
    /\ UNCHANGED <<GOOGLE_KEY, REVIEWS_CACHE, SUGGEST_CACHE, now, loc, run, calls, cache_ops,
                   faults>>

\* the request to the provider and the loop over its reviews
ReviewsFetch(t, fails) ==
    /\ pc[t] = "fetch"
    /\ calls' = Append(calls, [fn |-> "place_reviews", query |-> loc[t].place_id,
                               radius_m |-> None])
    /\ IF fails
       THEN ReviewsReturn(t, <<>>) /\ UNCHANGED loc
       ELSE /\ loc' = [loc EXCEPT ![t].fetched =
                                    Some(texts_of(reviews_on_file(loc[t].place_id)))]
            /\ pc' = [pc EXCEPT ![t] = "size"]
            /\ UNCHANGED response
    /\ UNCHANGED <<GOOGLE_KEY, REVIEWS_CACHE, SUGGEST_CACHE, now, run, cache_ops, faults>>

\* if len(_REVIEWS_CACHE) >= _REVIEWS_CACHE_MAX
ReviewsSizeCheck(t) ==
    /\ pc[t] = "size"
    /\ pc' = [pc EXCEPT ![t] = IF Len(REVIEWS_CACHE) >= REVIEWS_CACHE_MAX
                                THEN "oldest" ELSE "insert"]
    /\ UNCHANGED <<GOOGLE_KEY, REVIEWS_CACHE, SUGGEST_CACHE, now, loc, run, calls, cache_ops,
                   faults, response>>

\* next(iter(_REVIEWS_CACHE)); on an empty dict StopIteration is caught by
\* the except clause
ReviewsOldest(t) ==
    /\ pc[t] = "oldest"
    /\ IF REVIEWS_CACHE = <<>>
       THEN ReviewsReturn(t, <<>>) /\ UNCHANGED loc
       ELSE /\ loc' = [loc EXCEPT ![t].oldest = Some(REVIEWS_CACHE[1].k)]
            /\ pc' = [pc EXCEPT ![t] = "pop"]
            /\ UNCHANGED response
    /\ UNCHANGED <<GOOGLE_KEY, REVIEWS_CACHE, SUGGEST_CACHE, now, run, calls, cache_ops, faults>>

\* _REVIEWS_CACHE.pop(key); the KeyError of a key that is gone is caught by
\* the except clause, which returns []
ReviewsPop(t) ==
    /\ pc[t] = "pop"
    /\ IF DictHas(REVIEWS_CACHE, loc[t].oldest[1])
       THEN /\ REVIEWS_CACHE' = DictPop(REVIEWS_CACHE, loc[t].oldest[1])
            /\ pc' = [pc EXCEPT ![t] = "insert"]
            /\ UNCHANGED response
       ELSE ReviewsReturn(t, <<>>) /\ UNCHANGED REVIEWS_CACHE
    /\ UNCHANGED <<GOOGLE_KEY, SUGGEST_CACHE, now, loc, run, calls, cache_ops, faults>>

\* _REVIEWS_CACHE[place_id] = texts; return texts
ReviewsInsert(t) ==
    /\ pc[t] = "insert"
    /\ REVIEWS_CACHE' = DictSet(REVIEWS_CACHE, loc[t].place_id,
                                [k |-> loc[t].place_id, v |-> loc[t].fetched[1]])
    /\ ReviewsReturn(t, loc[t].fetched[1])
    /\ UNCHANGED <<GOOGLE_KEY, SUGGEST_CACHE, now, loc, run, calls, cache_ops, faults>>

NextThreads ==
    \E t \in Threads :
        \/ \E place_id \in ThreadPlaceIds : ReviewsEnter(t, place_id)
        \/ ReviewsHit(t)
        \/ \E fails \in BOOLEAN : ReviewsFetch(t, fails)
        \/ ReviewsSizeCheck(t)
        \/ ReviewsOldest(t)
        \/ ReviewsPop(t)
        \/ ReviewsInsert(t)

SpecThreads == InitThreads /\ [][NextThreads]_vars

(***************************************************************************)
(* Properties                                                              *)
(***************************************************************************)
\* lrs got past its credential check and built its queries
LrsEntered == loc.mode # "none"

\* the candidate searches among the provider calls so far
CandidateSearches == {i \in 1..Len(calls) : calls[i].fn = "places_text_search"}

\* the provider places the picks of a list were made from
Sources(picks) == {picks[i].src : i \in 1..Len(picks)}

\* C1: a pick request (any mode value, credential present) whose center
\* resolution returns none ends at once with an empty pick list and a
\* non-null limitation note, and no candidate search is issued for it.
C1_UnresolvedCenter ==
    (LrsEntered /\ loc.center = None) =>
        /\ pc = "done"
        /\ response.kind = "picks"
        /\ response.picks = <<>>
        /\ response.limitation_note # None
        /\ CandidateSearches = {}

\* the provider was asked for the center, gave nothing usable, and the
\* request has been answered
C1_Witness ==
    /\ LrsEntered
    /\ loc.center = None
    /\ loc.mode = "hype"
    /\ Len(calls) = 1 /\ calls[1].fn = "location_center_from_text"
    /\ response.kind = "picks"

\* the names build_picks can give a pick, and those of them that contain a
\* blocklisted fragment when case is ignored
PickNames == {Strip(Get(p, "displayName", "")) : p \in PlaceSet}

ChainNames ==
    {n \in PickNames : \E i \in 1..Len(CHAIN_HINTS) : Contains(Upper(n), Upper(CHAIN_HINTS[i]))}

NoChain(picks) == \A i \in 1..Len(picks) : picks[i].name \in PickNames \ ChainNames

\* C2: no pick of a response, and no pick a pipeline run returns (locked or
\* in the fallback, at the primary or the maximum radius), has a name that
\* contains a blocklisted chain fragment, case ignored.
C2_NoChainPick ==
    /\ response.kind = "picks" => NoChain(response.picks)
    /\ run # NoRun => NoChain(run.picks)

\* the hype attempt at the maximum radius fell back to the unlocked run on
\* places that include two well-rated chains, and returned picks
C2_Witness ==
    /\ run # NoRun
    /\ run.attempt = "hype_wide"
    /\ run.used
    /\ run.picks # <<>>
    /\ \E i, j \in 1..Len(run.places) : run.places[i] = PizzaHut /\ run.places[j] = McD

\* the business status of a place as the provider words it, case and outer
\* blanks aside
BusinessStatus(p) == IF "businessStatus" \in DOMAIN p THEN Upper(Strip(p.businessStatus)) ELSE ""

\* the places the closed filter is to drop, and the permanently closed ones
ClosedOrNotOpen ==
    {p \in PlaceSet : \/ BusinessStatus(p) \in {"CLOSED_PERMANENTLY", "CLOSED_TEMPORARILY"}
                      \/ ("openNow" \in DOMAIN p /\ p.openNow = FALSE)}

PermanentlyClosed == {p \in PlaceSet : BusinessStatus(p) = "CLOSED_PERMANENTLY"}

\* the lock the returned list of run r was filtered with
AppliedLock(r) == IF r.used THEN None ELSE r.allowed_types

\* p meets every condition of run r other than the closed filter
RestOfFilter(p, r) ==
    /\ facts(p).name # ""
    /\ ~facts(p).is_chain
    /\ facts(p).matches_type_lock[AppliedLock(r)]
    /\ Get(p, "rating", 0) >= r.min_rating
    /\ Get(p, "userRatingCount", 0) >= r.min_reviews
    /\ "location" \in DOMAIN p => p.location <= r.max_radius_m

\* C3: in every pipeline run a candidate that meets the other conditions is
\* dropped exactly when its status is permanently or temporarily closed or
\* its open-now flag is false (so one with neither field is kept), a
\* candidate so marked is never returned, and no response holds a pick made
\* from a permanently closed place.
C3_ClosedFilter ==
    /\ run # NoRun =>
          \A j \in 1..Len(run.places) :
              LET p == run.places[j] IN
              /\ p \in ClosedOrNotOpen => p \notin Sources(run.picks)
              /\ (RestOfFilter(p, run) /\ Len(run.picks) < 12) =>
                     (p \notin Sources(run.picks) <=> p \in ClosedOrNotOpen)
    /\ response.kind = "picks" => Sources(response.picks) \cap PermanentlyClosed = {}

\* a run over a permanently closed, a temporarily closed and a not-open place,
\* each good enough otherwise, that returned a pick made from a place with
\* neither a status nor an open-now flag
C3_Witness ==
    /\ run # NoRun
    /\ {OldMill, Bella, NightOwl} \subseteq {run.places[j] : j \in 1..Len(run.places)}
    /\ \A p \in {OldMill, Bella, NightOwl} : RestOfFilter(p, run)
    /\ \E i \in 1..Len(run.picks) :
          {"businessStatus", "openNow"} \cap DOMAIN run.picks[i].src = {}

\* C4: a pick request with the credential present whose mode is none of
\* strict, best, hype is answered with the error naming the three modes,
\* whether or not the center resolves and whatever the provider returns.
C4_InvalidModeError ==
    (LrsEntered /\ pc = "done" /\ loc.mode \notin {"strict", "best", "hype"}) =>
        response = [kind |-> "error", error |-> MODE_ERROR]

\* C5: with the credential unset no provider call is issued and no cache is
\* read or written; suggest returns an empty suggestion list and lrs the
\* missing-credential error.
C5_NoCredential ==
    GOOGLE_KEY = "" =>
        /\ calls = <<>>
        /\ cache_ops = <<>>
        /\ REVIEWS_CACHE = <<>> /\ SUGGEST_CACHE = <<>>
        /\ pc = "done" =>
              \/ response.kind = "suggestions" /\ response.suggestions = <<>>
              \/ response = [kind |-> "error", error |-> KEY_ERROR]

\* lrs answered a request made without the credential
C5_Witness ==
    /\ GOOGLE_KEY = ""
    /\ pc = "done"
    /\ response.kind = "error"

\* C6: build_with_type_fallback with a lock supplied and the fallback
\* permitted: when the locked pipeline yields fewer than want_at_least picks
\* it returns the output of the same pipeline without the lock (never fewer
\* picks than the locked one) and the flag TRUE; otherwise it returns the
\* locked list and the flag FALSE.
C6_TypeFallback ==
    (run # NoRun /\ run.allowed_types # None /\ run.allow_type_fallback) =>
        LET locked == build_picks(run.places, run.min_rating, run.min_reviews, run.sorter,
                                  run.allowed_types, loc.center, Some(run.max_radius_m))
            unlocked == build_picks(run.places, run.min_rating, run.min_reviews, run.sorter,
                                    None, loc.center, Some(run.max_radius_m))
        IN IF Len(locked) < run.want_at_least
           THEN run.picks = unlocked /\ run.used /\ Len(unlocked) >= Len(locked)
           ELSE run.picks = locked /\ ~run.used

\* a run whose locked pipeline was short and whose fallback gave more picks
\* than the locked pipeline had
C6_Witness ==
    /\ run # NoRun
    /\ run.allowed_types # None
    /\ run.allow_type_fallback
    /\ run.used
    /\ Len(run.picks) >= run.want_at_least
    /\ \E i \in 1..Len(run.picks) :
          ~facts(run.picks[i].src).matches_type_lock[run.allowed_types]

\* the primary category and the category tags of a place, lower-cased and trimmed
PlaceTags ==
    [p \in PlaceSet |->
        {Lower(Strip(Get(p, "primaryType", "")))}
        \cup {Lower(Strip(Get(p, "types", <<>>)[i])) : i \in 1..Len(Get(p, "types", <<>>))}]

InLock(picks, lock) == \A i \in 1..Len(picks) : PlaceTags[picks[i].src] \cap lock # {}

\* every dish term and every non-food category has a lock set and no fallback
DishAndNonFoodLocked ==
    \A k \in DOMAIN DISH_ALIASES \cup NON_FOOD_CATEGORIES :
        LET L == setup("", Some(k), "strict") IN
        (L.is_dish_term \/ L.is_non_food) => L.allowed_types # None /\ ~L.lock_fallback_allowed

\* C7: for a request whose cuisine is a dish term or a non-food category, in
\* every mode and in both attempts, the fallback flag is FALSE and every
\* returned pick has its primary category or one of its tags in the lock
\* set, also when that leaves no pick at all.
C7_LockKept ==
    /\ DishAndNonFoodLocked
    /\ (LrsEntered /\ (loc.is_dish_term \/ loc.is_non_food)) =>
          /\ loc.allowed_types # None
          /\ run # NoRun => ~run.used /\ InLock(run.picks, loc.allowed_types[1])
          /\ (response.kind = "picks" /\ response.debug.center_resolved) =>
                /\ InLock(response.picks, loc.allowed_types[1])
                /\ response.debug.type_lock_fallback_used = Some(FALSE)
                /\ response.debug.type_lock_fallback_used_wide \in {None, Some(FALSE)}

\* the max-radius attempt of a dish-term request returned nothing although a
\* candidate outside the lock met every other condition
C7_Witness ==
    /\ LrsEntered
    /\ loc.is_dish_term
    /\ run # NoRun
    /\ run.attempt \in {"strict_wide", "best_wide", "hype_wide"}
    /\ run.picks = <<>>
    /\ \E j \in 1..Len(run.places) :
          /\ RestOfFilter(run.places[j], [run EXCEPT !.used = TRUE])
          /\ run.places[j] \notin ClosedOrNotOpen

PrimaryRadius(mode) ==
    CASE mode = "strict" -> STRICT_PRIMARY [] mode = "best" -> BEST_PRIMARY [] OTHER -> HYPE_PRIMARY

MaxRadius(mode) ==
    CASE mode = "strict" -> STRICT_MAX [] mode = "best" -> BEST_MAX [] OTHER -> HYPE_MAX

\* the mode's minimum number of picks
Minimum(L) == IF L.mode = "best" THEN best_thresholds(L).want_at_least ELSE 3

\* the candidate searches issued at the mode's maximum radius
WideSearches == {i \in CandidateSearches : calls[i].radius_m = Some(MaxRadius(loc.mode))}

\* C8: in a response to a request with a resolved center and a valid mode,
\* the max-radius search was issued exactly when the primary attempt gave
\* fewer picks than the mode's minimum; the picks are those of the
\* max-radius attempt exactly when it gave strictly more picks than the
\* primary one; and the limitation note is non-null exactly in that case.
C8_Widening ==
    (response.kind = "picks" /\ response.debug.center_resolved) =>
        LET issued == WideSearches # {}
            kept == issued /\ loc.n_wide[1] > loc.n_primary[1]
            from == Some(IF kept THEN MaxRadius(loc.mode) ELSE PrimaryRadius(loc.mode))
        IN /\ issued <=> loc.n_primary[1] < Minimum(loc)
           /\ issued <=> loc.n_wide # None
           /\ \A i \in 1..Len(response.picks) : response.picks[i].made_at = from
           /\ kept => response.picks # <<>>
           /\ response.limitation_note # None <=> kept
           /\ response.debug.widened <=> kept

\* a best response whose picks are those of the max-radius attempt
C8_Witness ==
    /\ response.kind = "picks"
    /\ response.debug.center_resolved
    /\ loc.mode = "best"
    /\ response.picks # <<>>
    /\ \A i \in 1..Len(response.picks) : response.picks[i].made_at = Some(BEST_MAX)
    /\ response.limitation_note # None

\* the request is a best or hype request past its last attempt
OverlapModes == {"best", "hype"}

Ordered ==
    /\ LrsEntered
    /\ loc.mode \in OverlapModes
    /\ pc = "reviews" \/ response.kind = "picks"

\* the state right after prefer_new_first ran on the picks of the attempt
\* that just returned
JustOrdered ==
    /\ Ordered
    /\ pc = "reviews"
    /\ run # NoRun
    /\ \/ run.attempt \in {"best_primary", "hype_primary"}
       \/ run.attempt \in {"best_wide", "hype_wide"} /\ Len(run.picks) > loc.n_primary[1]

\* where the place src stands in a list of picks (0 when it does not)
Pos(picks, src) ==
    IF \E i \in 1..Len(picks) : picks[i].src = src
    THEN CHOOSE i \in 1..Len(picks) : picks[i].src = src
    ELSE 0

\* the picks of the attempt that prefer_new_first left out
Cut == {i \in 1..Len(run.picks) : Pos(loc.picks, run.picks[i].src) = 0}

\* the strict baseline keys are the keys of the first 5 baseline picks
BaselineKeys ==
    (run # NoRun /\ run.attempt = "strict_primary") =>
        loc.strict_keys = {run.picks[i].key : i \in 1..Min(5, Len(run.picks))}

\* flagged exactly when the key is a baseline key, no flagged pick before an
\* unflagged one
FlagsAndGroups ==
    Ordered =>
        /\ \A i \in 1..Len(loc.picks) :
              loc.picks[i].also_in_strict <=> loc.picks[i].key \in loc.strict_keys
        /\ \A i, j \in 1..Len(loc.picks) :
              (i < j /\ loc.picks[i].also_in_strict) => loc.picks[j].also_in_strict
        /\ response.kind = "picks" =>
              /\ Len(response.picks) = Len(loc.picks)
              /\ \A i \in 1..Len(response.picks) :
                    /\ response.picks[i].src = loc.picks[i].src
                    /\ response.picks[i].also_in_strict = loc.picks[i].also_in_strict

\* every pick kept is a pick of the attempt, two picks of one group stand as
\* they were ranked, and at most 5 are kept
RankKept ==
    JustOrdered =>
        /\ Len(loc.picks) = Min(5, Len(run.picks))
        /\ \A i \in 1..Len(loc.picks) : Pos(run.picks, loc.picks[i].src) > 0
        /\ \A i, j \in 1..Len(loc.picks) :
              (i < j /\ loc.picks[i].also_in_strict = loc.picks[j].also_in_strict) =>
                  Pos(run.picks, loc.picks[i].src) < Pos(run.picks, loc.picks[j].src)

\* C9 as stated: flagged exactly on a baseline key, unflagged picks first,
\* rank kept within each group, at most 5 picks, and every pick left out is
\* one whose key is a baseline key.
C9_FlaggedAreCut ==
    /\ BaselineKeys
    /\ FlagsAndGroups
    /\ RankKept
    /\ JustOrdered => \A c \in Cut : run.picks[c].key \in loc.strict_keys

\* C9, amended: as stated, except for the picks left out: the list is the
\* first 5 of the unflagged picks followed by the flagged ones, so a pick
\* left out ranks below every kept pick of its group, and an unflagged pick
\* is left out only when no flagged pick is kept.
C9_NewFirstThenCut ==
    /\ BaselineKeys
    /\ FlagsAndGroups
    /\ RankKept
    /\ JustOrdered =>
          \A c \in Cut :
              LET flagged == run.picks[c].key \in loc.strict_keys IN
              /\ \A i \in 1..Len(loc.picks) :
                    loc.picks[i].also_in_strict = flagged =>
                        Pos(run.picks, loc.picks[i].src) < c
              /\ ~flagged => \A i \in 1..Len(loc.picks) : ~loc.picks[i].also_in_strict

\* six picks, some of them in the strict baseline: a flagged pick is left out
\* and both groups are present in the list
C9_Witness ==
    /\ JustOrdered
    /\ Len(run.picks) > 5
    /\ \E i, j \in 1..Len(loc.picks) : ~loc.picks[i].also_in_strict /\ loc.picks[j].also_in_strict
    /\ \E c \in Cut : run.picks[c].key \in loc.strict_keys

\* the thresholds of the attempt a pick of the response was made by
Thresholds(L, made_at) ==
    CASE L.mode = "strict" -> [min_rating |-> 43, min_reviews |-> 150]
      [] L.mode = "best" -> IF L.is_dish_term
                            THEN [min_rating |-> 38, min_reviews |-> 1]
                            ELSE [min_rating |-> 41, min_reviews |-> 30]
      [] OTHER -> IF made_at = Some(HYPE_MAX)
                  THEN [min_rating |-> 38, min_reviews |-> 20]
                  ELSE [min_rating |-> 40, min_reviews |-> 80]

\* the pick shows the provider's rating and review count, both present, and
\* they meet the thresholds t
Meets(pick, t) ==
    /\ {"rating", "userRatingCount"} \subseteq DOMAIN pick.src
    /\ pick.rating = pick.src.rating /\ pick.reviews = pick.src.userRatingCount
    /\ pick.rating >= t.min_rating
    /\ pick.reviews >= t.min_reviews

\* C10: every pick of a response meets the thresholds of the attempt that
\* made it (strict 4.3/150; best 4.1/30, or 3.8/1 with a desired minimum of 1
\* for a dish term; hype 4.0/80 at the primary radius and 3.8/20 at the
\* maximum radius), and a candidate without a rating or a review count is
\* never a pick.
C10_Thresholds ==
    /\ (response.kind = "picks" /\ response.debug.center_resolved) =>
          \A i \in 1..Len(response.picks) :
              Meets(response.picks[i], Thresholds(loc, response.picks[i].made_at))
    /\ run # NoRun =>
          /\ \A i \in 1..Len(run.picks) : Meets(run.picks[i], run)
          /\ run.attempt \in {"best_primary", "best_wide"} =>
                /\ run.min_rating = Thresholds(loc, None).min_rating
                /\ run.min_reviews = Thresholds(loc, None).min_reviews
                /\ loc.is_dish_term => run.want_at_least = 1

\* a best response to a dish-term request with a pick below 4.1
C10_Witness ==
    /\ response.kind = "picks"
    /\ loc.mode = "best"
    /\ loc.is_dish_term
    /\ \E i \in 1..Len(response.picks) :
          response.picks[i].rating < 41 /\ response.picks[i].reviews < 30

\* the radius, in miles, of each attempt of the handler
AttemptMiles ==
    [strict_primary |-> 5, strict_wide |-> 10, best_primary |-> 10, best_wide |-> 15,
     hype_primary |-> 10, hype_wide |-> 25]

\* the pick was made from a place with coordinates
HasCoordinates(pick) == "location" \in DOMAIN pick.src

\* a pick with coordinates is no farther from the center than radius_m and
\* shows its distance; one without shows no distance
WithinRadius(pick, radius_m) ==
    IF HasCoordinates(pick)
    THEN /\ pick.src.location <= radius_m
         /\ pick.distance_miles = Some(distance_miles_of(pick.src.location))
    ELSE pick.distance_miles = None

\* C11: every pick with coordinates lies within the radius of the attempt
\* that made it (strict 5 mi primary / 10 mi maximum, best 10 / 15, hype
\* 10 / 25) of the resolved center; a candidate without coordinates is never
\* dropped by the distance step and is returned with a null distance.
C11_WithinRadius ==
    /\ run # NoRun =>
          /\ run.max_radius_m = miles_to_meters(AttemptMiles[run.attempt])
          /\ run.max_radius_m * 1000 <= AttemptMiles[run.attempt] * 1609344
          /\ \A i \in 1..Len(run.picks) : WithinRadius(run.picks[i], run.max_radius_m)
          /\ \A j \in 1..Len(run.places) :
                LET p == run.places[j] IN
                ("location" \notin DOMAIN p /\ RestOfFilter(p, run) /\ p \notin ClosedOrNotOpen
                 /\ Len(run.picks) < 12) => p \in Sources(run.picks)
    /\ (response.kind = "picks" /\ response.debug.center_resolved) =>
          \A i \in 1..Len(response.picks) :
              /\ response.picks[i].made_at
                    \in {Some(PrimaryRadius(loc.mode)), Some(MaxRadius(loc.mode))}
              /\ WithinRadius(response.picks[i], response.picks[i].made_at[1])

\* a response with a pick made from a place without coordinates, from an
\* attempt that dropped an otherwise acceptable place beyond its radius
C11_Witness ==
    /\ response.kind = "picks"
    /\ response.debug.center_resolved
    /\ \E i \in 1..Len(response.picks) :
          /\ ~HasCoordinates(response.picks[i])
          /\ response.picks[i].distance_miles = None
    /\ \E i \in 1..Len(response.picks) : HasCoordinates(response.picks[i])
    /\ \E p \in PlaceSet :
          /\ "location" \in DOMAIN p
          /\ p.location > MaxRadius(loc.mode)
          /\ Get(p, "rating", 0) >= Thresholds(loc, None).min_rating
          /\ Get(p, "userRatingCount", 0) >= Thresholds(loc, None).min_reviews
          /\ \E c \in CandidateSearches : calls[c].radius_m = Some(MaxRadius(loc.mode))

\* build_picks was called on its own and returned
BuildPicksReturned == response.kind = "returned" /\ response.fn = "build_picks"

\* the places of the call that survive its filter, in provider order
Survivors(a) ==
    LET Keep(p) == survives(p, a.min_rating, a.min_reviews, a.allowed_types, None, None)
    IN SelectSeq(a.places, Keep)

\* the places of a list whose score is s, in the order of the list
OfScore(places, sorter, s) ==
    LET Is(p) == Score(sorter, p) = s IN SelectSeq(places, Is)

SourcesInOrder(picks) == [i \in 1..Len(picks) |-> picks[i].src]

\* C12: build_picks returns at most 12 picks, in non-increasing order of the
\* selected score (local-trust: rating x 2 + log10(max(1, reviews)); hype:
\* log10(max(1, reviews)) x 5 + rating); no surviving candidate left out
\* scores strictly higher than one in the list, and candidates of equal score
\* keep their provider order.
C12_Ranked ==
    BuildPicksReturned =>
        LET a == response.args
            picked == SourcesInOrder(response.value)
            kept == Survivors(a)
        IN /\ Len(picked) = Min(12, Len(kept))
           /\ \A i, j \in 1..Len(picked) :
                 i < j => Score(a.sorter, picked[i]) >= Score(a.sorter, picked[j])
           /\ \A k \in 1..Len(kept) :
                 LET s == Score(a.sorter, kept[k])
                     in == OfScore(picked, a.sorter, s)
                     all == OfScore(kept, a.sorter, s)
                 IN /\ Len(in) <= Len(all)
                    /\ in = SubSeq(all, 1, Len(in))
                    /\ Len(in) < Len(all) =>
                          \A i \in 1..Len(picked) : Score(a.sorter, picked[i]) >= s
           /\ \A i \in 1..Len(picked) :
                 Score(a.sorter, picked[i]) =
                     IF a.sorter = "score_hype"
                     THEN Log10E4[Max(1, response.value[i].reviews)] * 5
                          + response.value[i].rating * 1000
                     ELSE response.value[i].rating * 2000
                          + Log10E4[Max(1, response.value[i].reviews)]

\* more than 12 candidates survived, 12 were returned, two different places
\* of equal score are among them, and the two scores order two picks
\* differently
C12_Witness ==
    /\ BuildPicksReturned
    /\ Len(Survivors(response.args)) > 12
    /\ Len(response.value) = 12
    /\ \E i, j \in 1..12 :
          /\ i < j
          /\ response.value[i].src # response.value[j].src
          /\ Score(response.args.sorter, response.value[i].src)
                = Score(response.args.sorter, response.value[j].src)
    /\ \E i, j \in 1..12 :
          /\ score_lrs(response.value[i].src) > score_lrs(response.value[j].src)
          /\ score_hype(response.value[i].src) < score_hype(response.value[j].src)

\* the tiers of the label, lowest first
Tier == [Low |-> 1, Med |-> 2, High |-> 3]

\* C13: confidence_label returns exactly one of High, Med, Low for every
\* (rating, reviewCount) pair: High iff rating >= 4.5 and reviews >= 300,
\* else Med iff rating >= 4.3 and reviews >= 100, else Low; and the label
\* never goes down when the rating grows with the reviews fixed or the
\* reviews grow with the rating fixed.
C13_ConfidenceLabel ==
    (response.kind = "returned" /\ response.fn = "confidence_label") =>
        LET rating == response.args.rating
            reviews == response.args.reviews
            label == response.value
            high == rating >= 45 /\ reviews >= 300
            med == rating >= 43 /\ reviews >= 100
        IN /\ label \in {"High", "Med", "Low"}
           /\ label = "High" <=> high
           /\ label = "Med" <=> (~high /\ med)
           /\ label = "Low" <=> (~high /\ ~med)
           /\ \A r \in Ratings :
                 r >= rating => Tier[confidence_label(r, reviews)] >= Tier[label]
           /\ \A n \in ReviewCounts :
                 n >= reviews => Tier[confidence_label(rating, n)] >= Tier[label]

\* a Med label just below the High threshold of the review count, which more
\* reviews raise to High
C13_Witness ==
    /\ response.kind = "returned"
    /\ response.fn = "confidence_label"
    /\ response.args = [rating |-> 45, reviews |-> 299]
    /\ response.value = "Med"
    /\ confidence_label(45, 300) = "High"

\* most_mentioned_dish was called on its own and returned
DishReturned == response.kind = "returned" /\ response.fn = "most_mentioned_dish"

\* the keyword list of the cuisine of the call (empty when it has none)
KeywordsOf(cuisine) ==
    IF Lower(Strip(cuisine)) \in DOMAIN DISH_KEYWORDS
    THEN DISH_KEYWORDS[Lower(Strip(cuisine))]
    ELSE <<>>

\* how often each keyword occurs in the normalized texts joined by blanks
Counts(review_texts, keywords) ==
    LET Joined(normalized) ==
            [i \in 1..Len(keywords) |-> StrCount(normalized, normalize_text(keywords[i]))]
    IN Joined(JoinSpace([i \in 1..Len(review_texts) |-> normalize_text(review_texts[i])]))

\* the value is the first declared of the keywords counted most often, or no
\* dish when no keyword occurs
FirstOfMost(keywords, count, value) ==
    IF \A i \in 1..Len(keywords) : count[i] = 0
    THEN value = None
    ELSE \E i \in 1..Len(keywords) :
            /\ value = Some(keywords[i])
            /\ count[i] > 0
            /\ \A j \in 1..Len(keywords) : count[j] <= count[i]
            /\ \A j \in 1..(i - 1) : count[j] < count[i]

\* C14: most_mentioned_dish, for a cuisine key with a keyword list and a
\* non-empty list of review texts, returns the keyword that occurs most often
\* in the normalized, concatenated text; of the keywords tied at the maximum
\* the one declared first; never a keyword with zero occurrences; and no dish
\* when every keyword has zero occurrences.
C14_MostMentioned ==
    (DishReturned /\ KeywordsOf(response.args.cuisine) # <<>>
     /\ response.args.review_texts # <<>>) =>
        FirstOfMost(KeywordsOf(response.args.cuisine),
                    Counts(response.args.review_texts, KeywordsOf(response.args.cuisine)),
                    response.value)

\* two keywords both occur twice, more often than any other, and the one
\* declared first was returned
C14_Witness ==
    /\ DishReturned
    /\ response.args.cuisine = " Vietnamese"
    /\ response.value # None
    /\ LET keywords == KeywordsOf(response.args.cuisine)
           count == Counts(response.args.review_texts, keywords)
       IN \E i, j \in 1..Len(keywords) :
             /\ i < j
             /\ response.value = Some(keywords[i])
             /\ count[i] = 2 /\ count[j] = 2

\* C15: most_mentioned_dish called with the review texts
\* ["I always get the birria tacos, so good"] and the cuisine "tacos" returns
\* "birria".
C15_BirriaScenario ==
    (DishReturned
     /\ response.args = [review_texts |-> <<"I always get the birria tacos, so good">>,
                         cuisine |-> "tacos"]) =>
        response.value = Some("birria")

\* the step is a review fetch the provider failed
ReviewFetchFailed == faults' = faults + 1

\* a failed review fetch leaves the request running with no error, and the
\* pick it was made for gets the generic order line
FailedFetchIsSoft ==
    ReviewFetchFailed =>
        /\ pc = "reviews" /\ pc' = "reviews"
        /\ response' = response
        /\ loc'.picks = [loc.picks EXCEPT ![loc.i].order = GENERIC_ORDER]
        /\ loc'.i = loc.i + 1

\* a pick keeps its order line once it has one
OrderKept ==
    (pc = "reviews" /\ LrsEntered') =>
        /\ Len(loc'.picks) = Len(loc.picks)
        /\ \A i \in 1..(loc.i - 1) : loc'.picks[i] = loc.picks[i]

\* a request with a failed review fetch ends with its picks, order lines as
\* they were set
PicksStillReturned ==
    /\ faults > 0 => response.kind \in {"none", "picks"}
    /\ (faults > 0 /\ pc = "done") =>
          /\ response.kind = "picks"
          /\ Len(response.picks) = Len(loc.picks)
          /\ \A i \in 1..Len(loc.picks) : response.picks[i].order = loc.picks[i].order

\* the provider was asked by suggest and nothing was put into the cache: the
\* search failed
SuggestSearchFailed ==
    /\ pc = "done"
    /\ ~LrsEntered
    /\ calls # <<>>
    /\ \A i \in 1..Len(cache_ops) : cache_ops[i] # "suggest.set"

\* suggest never ends in an error, and with an empty list when its search failed
SuggestIsSoft ==
    (pc = "done" /\ ~LrsEntered /\ GOOGLE_KEY # "") =>
        /\ response.kind = "suggestions"
        /\ SuggestSearchFailed => response.suggestions = <<>>

\* C16: a provider failure (error or timeout) in a review fetch or in the
\* suggestion search never surfaces as an error of the operation: the review
\* fetch yields an empty list and the pick request still returns its picks,
\* each affected pick carrying the generic ask-regulars order line; suggest
\* returns an empty suggestion list.
C16_SoftFailures ==
    /\ [][FailedFetchIsSoft /\ OrderKept]_vars
    /\ [](PicksStillReturned /\ SuggestIsSoft)

\* a response with two picks: the review fetch of one failed although the
\* provider holds reviews naming a dish for it, and the other got its dish
C16_Witness ==
    /\ pc = "done"
    /\ faults > 0
    /\ response.kind = "picks"
    /\ \E i, j \in 1..Len(loc.picks) :
          /\ response.picks[i].order = GENERIC_ORDER
          /\ dish_of(texts_of(reviews_on_file(loc.picks[i].place_id)),
                     loc.cuisine_for_reviews) # None
          /\ response.picks[j].order # GENERIC_ORDER

\* suggest answered a request whose search the provider failed
SuggestAnsweredAfterFailure == SuggestSearchFailed /\ response.kind = "suggestions"

\* the step is a candidate search of the pick operation that the provider
\* failed: the strict baseline search, or a mode's primary or max-radius search
BaselineSearchFails == LrsStrictBaseline(Raise)

PrimarySearchFails == LrsBestPrimary(Raise) \/ LrsHypePrimary(Raise)

WideSearchFails == LrsStrictWide(Raise) \/ LrsBestWide(Raise) \/ LrsHypeWide(Raise)

\* the operation failed: the failure left the handler and nothing else was done
OperationFails ==
    /\ pc' = "done"
    /\ response' = [kind |-> "raised"]
    /\ response'.kind # "picks"
    /\ loc' = loc
    /\ REVIEWS_CACHE' = REVIEWS_CACHE

\* an operation fails only in a candidate search made after the center
\* resolved, and a failed operation has no other end
FailsOnlyInSearch ==
    response.kind = "raised" =>
        /\ pc = "done"
        /\ LrsEntered
        /\ loc.center # None
        /\ calls[Len(calls)].fn = "places_text_search"
        /\ calls[Len(calls)].radius_m # None
        /\ ~ENABLED Next

\* C17: a provider failure in any candidate search issued by the pick
\* operation after the center resolved makes the whole operation fail (the
\* failure propagates, no picks response is returned): for the mode's primary
\* search, for its max-radius search, and for the strict baseline search that
\* best and hype requests issue before their own search.
C17_SearchFailurePropagates ==
    /\ [][(BaselineSearchFails \/ PrimarySearchFails \/ WideSearchFails) => OperationFails]_vars
    /\ []FailsOnlyInSearch

\* a best request failed in its max-radius search, after the baseline and the
\* primary search had succeeded
C17_Witness ==
    /\ response.kind = "raised"
    /\ loc.mode = "best"
    /\ Cardinality(CandidateSearches) = 3
    /\ calls[Len(calls)].radius_m = Some(BEST_MAX)

\* a hype request failed in the strict baseline search
BaselineFailureOfHype ==
    /\ response.kind = "raised"
    /\ loc.mode = "hype"
    /\ Cardinality(CandidateSearches) = 1

\* the keys of a cache
Keys(d) == {d[i].k : i \in 1..Len(d)}

\* the step put a new entry into the cache that was d
Inserts(d, e) == e /= d /\ e /= <<>> /\ \A i \in 1..Len(d) : d[i] /= e[Len(e)]

\* the suggestion cache as the insertion of the step finds it: suggest has
\* removed the entry of its key when it had expired
FoundBySet(d, e) ==
    LET Other(x) == x.k /= e[Len(e)].k IN SelectSeq(d, Other)

\* an insertion into a cache found as d with bound max leaves it as e: the
\* new key was not in it and goes last; below the bound nothing is removed,
\* at the bound the entry inserted first is removed and no other
InsertedWithEviction(d, e, max) ==
    /\ e[Len(e)].k \notin Keys(d)
    /\ IF Len(d) < max
       THEN e = Append(d, e[Len(e)])
       ELSE /\ Len(d) = max
            /\ e = Append(Tail(d), e[Len(e)])
            /\ Keys(d) \ Keys(e) = {d[1].k}

CachesBounded ==
    /\ Len(REVIEWS_CACHE) <= REVIEWS_CACHE_MAX
    /\ Len(SUGGEST_CACHE) <= SUGGEST_CACHE_MAX

EvictsOldest ==
    /\ Inserts(REVIEWS_CACHE, REVIEWS_CACHE') =>
          InsertedWithEviction(REVIEWS_CACHE, REVIEWS_CACHE', REVIEWS_CACHE_MAX)
    /\ Inserts(SUGGEST_CACHE, SUGGEST_CACHE') =>
          InsertedWithEviction(FoundBySet(SUGGEST_CACHE, SUGGEST_CACHE'), SUGGEST_CACHE',
                               SUGGEST_CACHE_MAX)
    /\ (REVIEWS_CACHE' /= REVIEWS_CACHE) => Inserts(REVIEWS_CACHE, REVIEWS_CACHE')
    /\ (SUGGEST_CACHE' /= SUGGEST_CACHE /\ ~Inserts(SUGGEST_CACHE, SUGGEST_CACHE')) =>
          \E k \in Keys(SUGGEST_CACHE) :
              /\ SUGGEST_CACHE' = DictPop(SUGGEST_CACHE, k)
              /\ now - DictAt(SUGGEST_CACHE, k).ts > SUGGEST_CACHE_TTL_S

\* C18: after any sequence of pick and suggestion requests served one after
\* the other, the review-text cache holds at most 200 entries and the
\* suggestion cache at most 300; an insertion that finds the cache at its
\* bound evicts exactly one entry, the oldest inserted one, before the insert.
C18_BoundedCaches == []CachesBounded /\ [][EvictsOldest]_vars

\* both caches are at their bound, each has had an insertion since it was
\* first found there, and the entry inserted first is gone from each
C18_Witness ==
    /\ Len(REVIEWS_CACHE) = REVIEWS_CACHE_MAX
    /\ Len(SUGGEST_CACHE) = SUGGEST_CACHE_MAX
    /\ "place-1" \notin Keys(REVIEWS_CACHE)
    /\ "place-2" \in Keys(REVIEWS_CACHE)
    /\ "q1||6" \notin Keys(SUGGEST_CACHE)
    /\ "q2||6" \in Keys(SUGGEST_CACHE)

\* C19: under any interleaving of two or more concurrently served requests
\* that miss the review-text cache (the size check, the eviction and the
\* insertion being separate steps), the cache never holds more than 200
\* entries, and every call whose provider fetch succeeded returns the texts
\* it fetched.
C19_ConcurrentReviews ==
    /\ Len(REVIEWS_CACHE) <= REVIEWS_CACHE_MAX
    /\ \A t \in Threads :
          (pc[t] = "done" /\ loc[t].fetched # None) =>
              response[t].value = loc[t].fetched[1]

\* the first half of C19 alone: the bound of the cache
ReviewsCacheBounded == Len(REVIEWS_CACHE) <= REVIEWS_CACHE_MAX

\* the second half of C19 alone: a successful fetch is returned
FetchedIsReturned ==
    \A t \in Threads :
        (pc[t] = "done" /\ loc[t].fetched # None) => response[t].value = loc[t].fetched[1]

\* the cuisine is searched under its own name: a non-food category, or a dish
\* term, which is a key of the alias table that stands for another cuisine
SearchedByName(cuisine_key) ==
    \/ cuisine_key \in NON_FOOD_CATEGORIES
    \/ /\ cuisine_key \in DOMAIN DISH_ALIASES
       /\ DISH_ALIASES[cuisine_key] # cuisine_key

\* the base query of the claim for a cuisine as typed ("" for none) and a
\* location, outer blanks dropped
BaseQueryOf(cuisine, location) ==
    IF SearchedByName(Lower(Strip(cuisine)))
    THEN Strip(Strip(cuisine) \o " in " \o location)
    ELSE IF Strip(cuisine) = ""
    THEN Strip("restaurants in " \o location)
    ELSE Strip(Strip(cuisine) \o " restaurants in " \o location)

\* the cuisines of the base-query table: every key of the alias table, every
\* non-food category, and other cuisines
QueryCuisines ==
    DOMAIN DISH_ALIASES \cup NON_FOOD_CATEGORIES \cup {"", " Pizza", "Thai ", "PHO", "Barber"}

\* the three queries of a request, for every cuisine of the table
BaseQueries ==
    \A c \in QueryCuisines, location \in Locations :
        LET L == setup(location, Some(c), "strict") IN
        /\ L.base = BaseQueryOf(c, location)
        /\ L.strict_query = "best " \o L.base
        /\ L.best_query = L.base
        /\ L.hype_query = "Popular " \o L.base

\* the base queries of the model's requests, evaluated once
RequestBases ==
    [c \in {IF x = None THEN "" ELSE Strip(x[1]) : x \in Cuisines} |->
        [location \in Locations |-> BaseQueryOf(c, location)]]

\* ramen, sushi and bbq are keys of the alias table that stand for themselves
OwnAliases ==
    \A c \in {"ramen", "sushi", "bbq"} :
        /\ DISH_ALIASES[c] = c
        /\ setup("X", Some(c), "best").best_query = c \o " restaurants in X"

\* the queries of the request in progress
RequestQueries ==
    LrsEntered =>
        /\ loc.base = RequestBases[loc.cuisine_clean][loc.location]
        /\ loc.strict_query = "best " \o loc.base
        /\ loc.best_query = loc.base
        /\ loc.hype_query = "Popular " \o loc.base

\* the query of the requested mode
QueryOfMode ==
    CASE loc.mode = "strict" -> loc.strict_query
      [] loc.mode = "best" -> loc.best_query
      [] OTHER -> loc.hype_query

\* C20 as stated: the base query reads "<cuisine> in <location>" for a
\* non-food category or a dish term and "[<cuisine> ]restaurants in
\* <location>" for every other cuisine; strict is "best " + base, best is
\* base, hype is "Popular " + base; and the query field of the response is
\* the query of the requested mode.
C20_QueryOfMode ==
    /\ BaseQueries
    /\ RequestQueries
    /\ (response.kind = "picks" /\ loc.mode \in {"strict", "best", "hype"}) =>
          response.query = QueryOfMode

\* C20, amended: as stated for the base query and the three mode queries,
\* where a dish term is a key of the alias table whose alias is another
\* word than the key (ramen, sushi and bbq are searched with "restaurants");
\* the query field of a response with a resolved center is the query of the
\* requested mode, and that of the response to an unresolved center is the
\* base query, whatever the mode.
C20_Queries ==
    /\ BaseQueries
    /\ RequestQueries
    /\ (response.kind = "picks" /\ loc.mode \in {"strict", "best", "hype"}) =>
          response.query = IF response.debug.center_resolved THEN QueryOfMode ELSE loc.base
    /\ OwnAliases

\* a hype response for a dish term with the center resolved
C20_Witness ==
    /\ response.kind = "picks"
    /\ response.debug.center_resolved
    /\ loc.is_dish_term
    /\ response.query = "Popular pho in Paso Robles, CA"

\* a strict response to an unresolved center: its query field is the base query
UnresolvedCarriesBase ==
    /\ response.kind = "picks"
    /\ ~response.debug.center_resolved
    /\ loc.mode = "strict"
    /\ response.query = "Pizza restaurants in Paso Robles, CA"

\* the cache key of a suggestion request: the query trimmed and lower-cased,
\* and the limit
KeyOfRequest(q, limit) == Lower(Strip(q)) \o "||" \o ToString(limit)

\* the keys of the model's suggestion requests, evaluated once
RequestKeys == [r \in RequestSuggestions |-> KeyOfRequest(r[1], r[2])]

\* the entries of the suggestion cache under key k
EntriesOf(d, k) == {d[i] : i \in {j \in 1..Len(d) : d[j].k = k}}

\* an entry under key k exists and was stored at most 300 seconds ago
Fresh(k) == \E e \in EntriesOf(SUGGEST_CACHE, k) : now - e.ts <= 300

\* one suggestion request with key k whose provider call, if any, has
\* outcome answer
SuggestAnswered(k, answer) ==
    /\ response'.kind = "suggestions"
    /\ IF Fresh(k)
       THEN /\ calls' = calls
            /\ SUGGEST_CACHE' = SUGGEST_CACHE
            /\ \E e \in EntriesOf(SUGGEST_CACHE, k) : response'.suggestions = e.value
       ELSE /\ Len(calls') = Len(calls) + 1
            /\ calls'[Len(calls')].fn = "places_text_search"
            /\ EntriesOf(SUGGEST_CACHE', k) \cap EntriesOf(SUGGEST_CACHE, k) = {}
            /\ IF answer.ok
               THEN \E e \in EntriesOf(SUGGEST_CACHE', k) :
                       e.ts = now /\ e.value = response'.suggestions
               ELSE /\ EntriesOf(SUGGEST_CACHE', k) = {}
                    /\ response'.suggestions = <<>>

\* C21: a suggestion request is answered from the cache, with no provider
\* call, if and only if an entry for the same (trimmed, lower-cased query,
\* limit) key exists and was stored at most 300 seconds earlier; an older
\* entry is removed on lookup and the provider is queried again; a provider
\* failure stores nothing, so the next identical request queries the
\* provider again.
C21_SuggestCacheTTL ==
    [][\A r \in RequestSuggestions, answer \in RequestSuggestAnswers :
           Suggest(r[1], r[2], answer) => SuggestAnswered(RequestKeys[r], answer)]_vars

\* a request typed with a capital and an outer blank, answered from the cache
\* by an entry exactly 300 seconds old
C21_Witness ==
    /\ response.kind = "suggestions"
    /\ response.q = " Paso"
    /\ response.suggestions # <<>>
    /\ calls = <<>>
    /\ cache_ops = <<"suggest.get">>
    /\ now = 300
    /\ \E e \in EntriesOf(SUGGEST_CACHE, "paso||6") : e.ts = 0

\* a request that found its entry 301 seconds old, removed it, and stored
\* nothing because the provider failed
ExpiredAndFailed ==
    /\ response.kind = "suggestions"
    /\ calls # <<>>
    /\ now = 601
    /\ response.q = " Paso"
    /\ EntriesOf(SUGGEST_CACHE, "paso||6") = {}
    /\ \E i \in 1..Len(SUGGEST_CACHE) : SUGGEST_CACHE[i].ts = 300


\* the place id add_order_from_reviews asks place_reviews about in its next
\* turn
ReviewedId == Strip(loc.picks[loc.i].place_id)

\* the order line the turn writes when place_reviews returns texts
OrderOf(texts) ==
    order_line(loc.picks[loc.i].name, dish_of(texts, loc.cuisine_for_reviews))

OrderWritten == loc'.picks[loc.i].order

Entries(d) == {d[i] : i \in 1..Len(d)}

\* one call of place_reviews, the fetch failing or not when it is made
ReviewAnswered(pid, fails) ==
    IF pid = ""
    THEN /\ REVIEWS_CACHE' = REVIEWS_CACHE
         /\ calls' = calls
         /\ OrderWritten = OrderOf(<<>>)
    ELSE IF EntriesOf(REVIEWS_CACHE, pid) # {}
    THEN /\ REVIEWS_CACHE' = REVIEWS_CACHE
         /\ calls' = calls
         /\ \E e \in EntriesOf(REVIEWS_CACHE, pid) : OrderWritten = OrderOf(e.v)
    ELSE /\ calls' = Append(calls, [fn |-> "place_reviews", query |-> pid, radius_m |-> None])
         /\ IF fails
            THEN /\ REVIEWS_CACHE' = REVIEWS_CACHE
                 /\ OrderWritten = OrderOf(<<>>)
            ELSE LET fetched == [k |-> pid, v |-> texts_of(reviews_on_file(pid))]
                 IN /\ EntriesOf(REVIEWS_CACHE', pid) = {fetched}
                    /\ Entries(REVIEWS_CACHE') \subseteq Entries(REVIEWS_CACHE) \cup {fetched}
                    /\ OrderWritten = OrderOf(fetched.v)

\* C22: place_reviews is miss-safe and caches only successes.  A call for a
\* blank id, and a call whose fetch fails, leave the cache as it was (so the
\* next call for the id queries the provider again); a successful fetch
\* stores the texts it returns, an empty list included, and changes no other
\* entry; a call for an id that has an entry returns the stored texts, makes
\* no provider call and leaves the cache as it was; nothing but
\* place_reviews writes the cache, so an entry keeps the texts of its fetch
\* until it is evicted.
C22_ReviewsCache ==
    [][/\ \A fails \in BOOLEAN : LrsReview(fails) => ReviewAnswered(ReviewedId, fails)
       /\ pc # "reviews" => REVIEWS_CACHE' = REVIEWS_CACHE]_vars

\* a request all of whose lookups were answered from the cache: the texts of
\* one place, the empty lists that were fetched for two others, and no lookup
\* at all for the pick without a place id
C22_Witness ==
    /\ pc = "done"
    /\ response.kind = "picks"
    /\ Len(response.picks) = 4
    /\ \A i \in 1..Len(calls) : calls[i].fn # "place_reviews"
    /\ cache_ops = <<"reviews.get", "reviews.get", "reviews.get">>
    /\ \E e \in EntriesOf(REVIEWS_CACHE, "luigi") : e.v # <<>>
    /\ \E e \in EntriesOf(REVIEWS_CACHE, "nonna") : e.v = <<>>
    /\ \E i \in 1..4 : response.picks[i].order # GENERIC_ORDER

\* a fetch failed in this request and its place has no entry
FailedFetchStoredNothing ==
    /\ pc = "done"
    /\ faults = 1
    /\ \E i \in 1..Len(calls) : calls[i].fn = "place_reviews" /\ calls[i].query = "luigi"
    /\ EntriesOf(REVIEWS_CACHE, "luigi") = {}
    /\ EntriesOf(REVIEWS_CACHE, "nonna") # {}

\* the provider calls place_reviews made, and the cache lookups it made
ReviewCalls == {i \in 1..Len(calls) : calls[i].fn = "place_reviews"}

ReviewLookups == {i \in 1..Len(cache_ops) : cache_ops[i] = "reviews.get"}

\* the place ids of the picks of a list, as add_order_from_reviews reads them
PlaceIdsOf(picks) == {Strip(picks[i].place_id) : i \in 1..Len(picks)}

\* the picks of the strict baseline that are not picks of the final list
BaselineOnly == {i \in 1..Len(loc.strict_picks) : loc.strict_picks[i].key \notin KeysOf(loc.picks)}

\* C23: within one pick request the review texts are requested only when
\* the searches and pipeline runs are over (no lookup before the final list
\* stands, no search after a lookup), at most 5 times, and only for picks of
\* the final list, which is the list of the response; in a best or hype
\* request no lookup is made for a pick of the strict baseline that is not
\* in the final list.
C23_ReviewsLast ==
    /\ pc \notin {"reviews", "done"} => ReviewCalls = {} /\ ReviewLookups = {}
    /\ \A i \in ReviewCalls : \A j \in i..Len(calls) : calls[j].fn = "place_reviews"
    /\ Cardinality(ReviewCalls) <= Cardinality(ReviewLookups)
    /\ Cardinality(ReviewLookups) < loc.i
    /\ loc.i <= Len(loc.picks) + 1
    /\ Len(loc.picks) <= 5
    /\ \A i \in ReviewCalls : calls[i].query \in PlaceIdsOf(loc.picks)
    /\ loc.mode \in {"best", "hype"} =>
          \A i \in ReviewCalls, j \in BaselineOnly :
              calls[i].query # Strip(loc.strict_picks[j].place_id)
    /\ (pc = "done" /\ response.kind = "picks" /\ loc.center # None) =>
          /\ Len(response.picks) = Len(loc.picks)
          /\ \A j \in 1..Len(loc.picks) : response.picks[j] = public_pick(loc.mode, loc.picks[j])

\* a best request answered with 5 picks of more than 5 that passed the
\* filters, a lookup made for each, and a baseline pick that is not among
\* them
C23_Witness ==
    /\ pc = "done"
    /\ response.kind = "picks"
    /\ loc.mode = "best"
    /\ loc.n_primary # None /\ loc.n_primary[1] > 5
    /\ Len(response.picks) = 5
    /\ Cardinality(ReviewLookups) >= 4
    /\ BaselineOnly # {}

\* the locals of a strict request for cuisine at the location whose center
\* the provider resolves
StrictLocals(cuisine) ==
    [setup("Paso Robles, CA", cuisine, "strict") EXCEPT
        !.center = location_center_from_text("Paso Robles, CA", RequestCenterAnswer).center]

CleanCuisine == [cuisine \in Cuisines |-> StrictLocals(cuisine).cuisine_clean]

\* what the strict block can get from its search at the maximum radius, for
\* each cuisine and each provider answer: the number of picks of the run and
\* the keys of its first 5
StrictWideRuns ==
    [cuisine \in Cuisines |->
        {LET a == attempt_of("strict_wide", answer.v, 43, 150, "score_lrs",
                             StrictLocals(cuisine), 3, STRICT_MAX)
         IN [n |-> Len(a.picks), keys |-> KeysOf(Take5(a.picks))] :
           answer \in {x \in SearchAnswers : x.ok}}]

\* the runs at the maximum radius a strict request of this cuisine can make
WideRunsHere == UNION {StrictWideRuns[c] : c \in {d \in Cuisines : CleanCuisine[d] = loc.cuisine_clean}}

\* a strict request with this baseline keeps the run r at the maximum radius
StrictWidens(r) == too_few(loc.strict_picks, 3) /\ r.n > Len(loc.strict_picks)

\* the keys of the picks a strict request returns for the baseline of this
\* request, r being its run at the maximum radius when it makes one
StrictReturnedKeys(r) == IF StrictWidens(r) THEN r.keys ELSE loc.strict_keys

BestOrHypeAnswered ==
    /\ pc = "done"
    /\ response.kind = "picks"
    /\ loc.mode \in {"best", "hype"}
    /\ loc.center # None

\* pick i of the response is flagged and no unflagged pick follows it
FlaggedLast(i) ==
    /\ response.picks[i].also_in_strict
    /\ \A j \in i..Len(response.picks) : response.picks[j].also_in_strict

\* C24 as stated: every venue that a strict request for the same location,
\* cuisine and provider data returns, from its primary or from its widened
\* run, and that is in the best or hype response, is flagged also_in_strict
\* there and stands after all unflagged picks.
C24_OverlapWithStrict ==
    BestOrHypeAnswered =>
        \A r \in WideRunsHere : \A i \in 1..Len(loc.picks) :
            loc.picks[i].key \in StrictReturnedKeys(r) => FlaggedLast(i)

\* C24, amended: a venue of the best or hype response that the strict
\* request returns is flagged also_in_strict and stands after all unflagged
\* picks when it is one of the first 5 picks of the strict run at the primary
\* radius; a venue the strict request returns only from its widened run is
\* not flagged.
C24_OverlapWithBaseline ==
    BestOrHypeAnswered =>
        /\ \A i \in 1..Len(loc.picks) :
              /\ response.picks[i].also_in_strict <=> loc.picks[i].key \in loc.strict_keys
              /\ response.picks[i].also_in_strict => FlaggedLast(i)
        /\ \A r \in WideRunsHere : \A i \in 1..Len(loc.picks) :
              loc.picks[i].key \in StrictReturnedKeys(r) =>
                  IF loc.picks[i].key \in loc.strict_keys
                  THEN FlaggedLast(i)
                  ELSE StrictWidens(r) /\ ~response.picks[i].also_in_strict

\* a response with a flagged pick, of a request whose baseline is short, so
\* that the strict request widens, and a widened strict result that holds a
\* pick of the response the baseline does not
C24_Witness ==
    /\ BestOrHypeAnswered
    /\ \E i \in 1..Len(response.picks) : response.picks[i].also_in_strict
    /\ \E r \in WideRunsHere :
          /\ StrictWidens(r)
          /\ \E i \in 1..Len(loc.picks) : loc.picks[i].key \in r.keys \ loc.strict_keys

\* a venue more than 5 miles out, so in no baseline, that the widened strict
\* request returns and the response shows unflagged beside a baseline venue
FarVenueUnflagged ==
    /\ BestOrHypeAnswered
    /\ loc.strict_picks # <<>>
    /\ \E r \in WideRunsHere : \E i \in 1..Len(loc.picks) :
          /\ StrictWidens(r)
          /\ loc.picks[i].key \in r.keys
          /\ loc.picks[i].distance_miles # None
          /\ loc.picks[i].distance_miles[1] > 50
          /\ ~response.picks[i].also_in_strict

\* keyword long contains keyword short as a substring
ContainsKeyword(long, short) == short # "" /\ StrCount(long, short) > 0

\* the positions of the keywords that contain an earlier-declared keyword of
\* the list, with the position of such an earlier keyword
ContainingPairs(keywords) ==
    {p \in (1..Len(keywords)) \X (1..Len(keywords)) :
        p[1] < p[2] /\ ContainsKeyword(keywords[p[2]], keywords[p[1]])}

\* the same for every keyword list, evaluated once
ContainingPairsOf == [c \in DOMAIN DISH_KEYWORDS |-> ContainingPairs(DISH_KEYWORDS[c])]

CuisineOfCall == Lower(Strip(response.args.cuisine))

\* C25: most_mentioned_dish never returns a keyword that contains an
\* earlier-declared keyword of the same list: whatever the review texts, the
\* earlier keyword is counted at least as often as the keyword that contains
\* it, and the value returned is not the containing keyword.
C25_ContainedKeywordWins ==
    (DishReturned /\ CuisineOfCall \in DOMAIN DISH_KEYWORDS) =>
        LET keywords == DISH_KEYWORDS[CuisineOfCall]
            count == Counts(response.args.review_texts, keywords)
        IN \A p \in ContainingPairsOf[CuisineOfCall] :
              /\ count[p[1]] >= count[p[2]]
              /\ response.value # Some(keywords[p[2]])

\* the texts hold "street tacos" three times and "tacos" nowhere else: both
\* keywords are counted three times, no keyword more often, and "tacos",
\* declared first, was returned
C25_Witness ==
    /\ DishReturned
    /\ CuisineOfCall = "tacos"
    /\ LET keywords == DISH_KEYWORDS[CuisineOfCall]
           count == Counts(response.args.review_texts, keywords)
       IN \E p \in ContainingPairsOf[CuisineOfCall] :
             /\ keywords[p[1]] = "tacos" /\ keywords[p[2]] = "street tacos"
             /\ count[p[2]] = 3
             /\ count[p[1]] = count[p[2]]
             /\ \A k \in 1..Len(keywords) : count[k] <= count[p[2]]
             /\ response.value = Some("tacos")

\* "cheeseburger" occurs twice and "burger", counted inside it and inside
\* "smashburger", three times
ContainedCountedMore ==
    /\ DishReturned
    /\ CuisineOfCall = "burgers"
    /\ LET keywords == DISH_KEYWORDS[CuisineOfCall]
           count == Counts(response.args.review_texts, keywords)
       IN \E p \in ContainingPairsOf[CuisineOfCall] :
             /\ keywords[p[1]] = "burger" /\ keywords[p[2]] = "cheeseburger"
             /\ count[p[2]] = 2
             /\ count[p[1]] = 3
             /\ response.value = Some("burger")

====
